---- MODULE Spec2Model ----
(***************************************************************************)
(* Model of the Matrix service of plugin-matrix (src/src/service.ts) and   *)
(* of the join/leave actions that mutate its room allow-list.              *)
(*                                                                         *)
(* Strings are sequences of characters.  A fixed literal fragment of a     *)
(* template string is written as one token, so that string concatenation   *)
(* is sequence concatenation and emptiness is Len = 0.                     *)
(*                                                                         *)
(* An async handler is cut at its awaits.  The handlers share no mutable   *)
(* state with each other (they only read client, allowedRoomIds and        *)
(* dynamicRoomIds), so the callbacks of the listeners are run one at a     *)
(* time, interleaved with the join/leave actions and with stop().  The     *)
(* reply callbacks, which do overlap in time, have their own processes.    *)
(***************************************************************************)
EXTENDS Integers, Sequences, FiniteSets, TLC

VARIABLES
  client,                  \* this.client: "up" or "null"
  allowedRoomIds,          \* this.allowedRoomIds: [defined, ids]
  dynamicRoomIds,          \* this.dynamicRoomIds
  shouldIgnoreBotMessages, \* this.matrixSettings.shouldIgnoreBotMessages
  ev,                      \* the room event the SDK is delivering
  pending,                 \* listener topics still to be called for ev
  task,                    \* the listener callback in progress
  emitted,                 \* runtime.emitEvent payloads of the callback in progress
  emitCount,               \* number of emitEvent calls made for ev so far
  everJoined,              \* rooms a recorded join action has added (history)
  replies,                 \* reply callbacks invoked by the runtime
  sends,                   \* client.sendMessage calls, in call order
  fetch,                   \* the image download in progress
  lookup,                  \* the getRoomInfo call in progress
  world,                   \* the onReady call in progress
  outbound                 \* the handleSendMessage call in progress

dispatchVars == <<ev, pending, task, emitted, emitCount>>
listVars == <<allowedRoomIds, dynamicRoomIds, shouldIgnoreBotMessages, everJoined>>
replyVars == <<replies, sends>>
mediaVars == <<fetch>>
contextVars == <<lookup>>
worldVars == <<world>>
sendVars == <<outbound>>
vars == <<client, allowedRoomIds, dynamicRoomIds, shouldIgnoreBotMessages, ev,
          pending, task, emitted, emitCount, everJoined, replies,
          sends, fetch, lookup, world, outbound>>

----------------------------------------------------------------------------
(* JavaScript strings                                                      *)

Undef == <<"undefined">>

\* JS truthiness of an optional string: undefined and "" are falsy
Truthy(s) == s # Undef /\ s # <<>>

\* a || b
OrElse(a, b) == IF Truthy(a) THEN a ELSE b

\* String.prototype.includes
includes(s, sub) ==
  \E i \in 1..(Len(s) - Len(sub) + 1) : SubSeq(s, i, i + Len(sub) - 1) = sub

\* String.prototype.startsWith
startsWith(s, pre) == Len(s) >= Len(pre) /\ SubSeq(s, 1, Len(pre)) = pre

RECURSIVE trimStart(_)
trimStart(s) == IF s # <<>> /\ Head(s) = " " THEN trimStart(Tail(s)) ELSE s

RECURSIVE trimEnd(_)
trimEnd(s) ==
  IF s # <<>> /\ s[Len(s)] = " " THEN trimEnd(SubSeq(s, 1, Len(s) - 1)) ELSE s

\* String.prototype.trim
trim(s) == trimEnd(trimStart(s))

\* String.prototype.split on a one-character separator
RECURSIVE split(_, _)
split(s, sep) ==
  IF \E i \in 1..Len(s) : s[i] = sep
  THEN LET i == CHOOSE k \in 1..Len(s) :
                  s[k] = sep /\ \A j \in 1..(k - 1) : s[j] # sep
       IN  <<SubSeq(s, 1, i - 1)>> \o split(SubSeq(s, i + 1, Len(s)), sep)
  ELSE <<s>>

----------------------------------------------------------------------------
(* Constructor: parsing of MATRIX_ROOM_IDS                                 *)

NoList == [defined |-> FALSE, ids |-> <<>>]

ParseRoomIds(roomIdsRaw) ==
  IF Truthy(roomIdsRaw) /\ Truthy(trim(roomIdsRaw))
  THEN LET parts == split(roomIdsRaw, ",")
           trimmed == [i \in 1..Len(parts) |-> trim(parts[i])]
       IN  [defined |-> TRUE,
            ids |-> SelectSeq(trimmed, LAMBDA x : Len(x) > 0)]
  ELSE NoList

\* values of the MATRIX_ROOM_IDS setting
RoomIdSettings ==
  {Undef, <<" ">>, <<"A">>, <<" ", "A", ",">>, <<",">>}

----------------------------------------------------------------------------
(* Room allow-list                                                         *)

Range(q) == {q[i] : i \in 1..Len(q)}

\* a faulty isRoomAllowed that consults the configured list only
isRoomAllowedStaticOnly(roomId) ==
  IF ~allowedRoomIds.defined
  THEN TRUE
  ELSE roomId \in Range(allowedRoomIds.ids)

\* a wrong isRoomAllowed, forgetting the configured list
isRoomAllowedDynamicOnly(roomId) ==
  IF ~allowedRoomIds.defined
  THEN TRUE
  ELSE roomId \in dynamicRoomIds

isRoomAllowed(roomId) ==
  IF ~allowedRoomIds.defined
  THEN TRUE
  ELSE roomId \in Range(allowedRoomIds.ids) \/ roomId \in dynamicRoomIds

\* the guard used by the handlers: this.allowedRoomIds && !this.isRoomAllowed(roomId)
RoomRestricted(roomId) == allowedRoomIds.defined /\ ~isRoomAllowed(roomId)

\* the dynamic set after addAllowedRoom(roomId)
addAllowedRoom(roomId) == dynamicRoomIds \cup {roomId}

\* a wrong removeAllowedRoom, without the test of the configured list
removeAllowedRoomAlways(roomId) == dynamicRoomIds \ {roomId}

\* the dynamic set after removeAllowedRoom(roomId)
removeAllowedRoom(roomId) ==
  IF allowedRoomIds.defined /\ roomId \in Range(allowedRoomIds.ids)
  THEN dynamicRoomIds
  ELSE dynamicRoomIds \ {roomId}

\* the value removeAllowedRoom(roomId) returns: false for a configured room,
\* else what Set.delete returns
removeAllowedRoomReturns(roomId) ==
  IF allowedRoomIds.defined /\ roomId \in Range(allowedRoomIds.ids)
  THEN FALSE
  ELSE roomId \in dynamicRoomIds

\* getAllowedRooms(), as a set
getAllowedRooms ==
  (IF allowedRoomIds.defined THEN Range(allowedRoomIds.ids) ELSE {})
    \cup dynamicRoomIds

----------------------------------------------------------------------------
(* Inbound room events                                                     *)

SelfId == <<"@", "m", "e">>
Senders == {SelfId, <<"@", "u">>, <<"@", "b", "o", "t">>}
Rooms == {<<"A">>, <<"B">>}
EventId == <<"$", "e">>
TargetId == <<"$", "t">>

\* MATRIX_MESSAGE_TYPES
supportedTypes ==
  {"m.text", "m.emote", "m.notice", "m.image", "m.file", "m.audio", "m.video"}
mediaTypes == {"m.image", "m.file", "m.audio", "m.video"}

\* "" stands for a content without msgtype
MsgTypes == supportedTypes \cup {"m.location", ""}
Bodies == {<<>>, <<"h", "i">>}
Urls == {Undef, <<"mxc://", "f", ".png">>}
MimeTypes == {Undef, <<"image/", "png">>}

\* An event as a flat record: the fields of event and of event.content that
\* the handlers read.  rel_type "" stands for a content without m.relates_to.
\* The events carry no info.size, info.w or info.h.
BlankEvent ==
  [type |-> "", roomId |-> <<>>, sender |-> <<>>, event_id |-> EventId,
   msgtype |-> "", body |-> <<>>, url |-> Undef, mimetype |-> Undef,
   rel_type |-> "", rel_event_id |-> Undef, key |-> Undef, membership |-> ""]

MessageContents ==
  {c \in [msgtype : MsgTypes, body : Bodies, url : Urls, mimetype : MimeTypes] :
     /\ (c.url # Undef => c.msgtype \in mediaTypes)
     /\ (c.mimetype # Undef => c.msgtype = "m.image")}

MessageEvents ==
  {[BlankEvent EXCEPT !.type = t, !.roomId = r, !.sender = s,
                      !.msgtype = c.msgtype, !.body = c.body, !.url = c.url,
                      !.mimetype = c.mimetype] :
     t \in {"m.room.message", "m.room.encrypted"}, r \in Rooms, s \in Senders,
     c \in MessageContents}

Relations ==
  {x \in [rel_type : {"", "m.annotation", "m.replace"},
          rel_event_id : {Undef, TargetId}, key : {Undef, <<"+">>}] :
     x.rel_type = "" => (x.rel_event_id = Undef /\ x.key = Undef)}

ReactionEvents ==
  {[BlankEvent EXCEPT !.type = "m.reaction", !.roomId = r, !.sender = s,
                      !.body = Undef, !.rel_type = x.rel_type,
                      !.rel_event_id = x.rel_event_id, !.key = x.key] :
     r \in Rooms, s \in Senders, x \in Relations}

MemberEvents ==
  {[BlankEvent EXCEPT !.type = "m.room.member", !.roomId = r, !.sender = s,
                      !.body = Undef, !.membership = m] :
     r \in Rooms, s \in Senders, m \in {"join", "leave", "invite"}}

OtherEvents ==
  {[BlankEvent EXCEPT !.type = "m.room.redaction", !.roomId = r, !.sender = s,
                      !.body = Undef] :
     r \in Rooms, s \in Senders}

RoomEvents == MessageEvents \cup ReactionEvents \cup MemberEvents \cup OtherEvents

\* The listeners of setupEventListeners that the SDK calls for an event:
\* "room.event" for every timeline event and "room.message" for m.room.message.
Topics(e) ==
  IF e.type = "m.room.message" THEN <<"room.message", "room.event">>
  ELSE <<"room.event">>

\* The handler a listener dispatches to
HandlerFor(topic, e) ==
  IF topic = "room.message" THEN "handleRoomMessage"
  ELSE CASE e.type = "m.room.member" -> "handleMemberEvent"
         [] e.type = "m.reaction" -> "handleReactionEvent"
         [] e.type = "m.room.message" -> "handleRoomMessage"
         [] e.type = "m.room.encrypted" -> "handleEncryptedMessage"
         [] OTHER -> "none"

----------------------------------------------------------------------------
(* Room context                                                            *)

MinimalRoom(roomId) ==
  [id |-> roomId, name |-> Undef, isDirect |-> FALSE, isEncrypted |-> FALSE,
   memberCount |-> 0]

NoRoom == MinimalRoom(Undef)

\* Results of getRoomState, getRoomMembers and getAccountData("m.direct")
RoomStateResults ==
  {[ok |-> FALSE, name |-> Undef, encryption |-> FALSE],
   [ok |-> TRUE, name |-> <<"N">>, encryption |-> FALSE]}
RoomMembersResults ==
  {[ok |-> FALSE, count |-> 0], [ok |-> TRUE, count |-> 2],
   [ok |-> TRUE, count |-> 3]}
AccountDataResults == {"throw", "null", "listed", "unlisted"}

\* a wrong getRoomInfo, taking every room of two members for a direct one
getRoomInfoByCount(roomId, st, mem, acct) ==
  IF ~st.ok \/ ~mem.ok
  THEN MinimalRoom(roomId)
  ELSE [id |-> roomId, name |-> st.name, isDirect |-> mem.count = 2,
        isEncrypted |-> st.encryption, memberCount |-> mem.count]

\* getRoomInfo after its client check
getRoomInfo(roomId, st, mem, acct) ==
  IF ~st.ok \/ ~mem.ok
  THEN MinimalRoom(roomId)
  ELSE [id |-> roomId, name |-> st.name,
        isDirect |-> IF mem.count = 2
                     THEN CASE acct = "throw" -> (mem.count = 2)
                            [] acct = "null" -> FALSE
                            [] acct = "listed" -> TRUE
                            [] OTHER -> FALSE
                     ELSE FALSE,
        isEncrypted |-> st.encryption, memberCount |-> mem.count]

\* the contexts getRoomInfo can return for a room
RoomInfos(roomId) ==
  {getRoomInfo(roomId, st, mem, acct) :
     st \in RoomStateResults, mem \in RoomMembersResults,
     acct \in AccountDataResults}

channelType(room) == IF room.isDirect THEN "DM" ELSE "GROUP"

\* pc: where onReady stands; rooms: the answer of getJoinedRooms; k: the room
\* of the loop
NoWorld == [pc |-> "idle", rooms |-> <<>>, k |-> 0]

\* pc: where handleSendMessage stands; roomId: targetRoomId; chunks, k: the
\* chunks of content.text and the one being sent; image: content.attachments
\* holds an image; error: what the call threw
NoOutbound ==
  [pc |-> "idle", channelId |-> Undef, entityId |-> Undef, roomId |-> Undef,
   chunks |-> <<>>, k |-> 0, image |-> FALSE, error |-> ""]

\* pc: where getRoomInfo stands; st, mem, acct: the results its queries have
\* had so far; room: the context it returned
NoLookup ==
  [pc |-> "idle", roomId |-> Undef,
   st |-> [ok |-> FALSE, name |-> Undef, encryption |-> FALSE],
   mem |-> [ok |-> FALSE, count |-> 0], acct |-> "none", room |-> NoRoom]

----------------------------------------------------------------------------
(* Media download as seen by the handlers                                  *)

NullMedia ==
  [null |-> TRUE, url |-> <<>>, title |-> <<>>, source |-> <<>>,
   contentType |-> ""]

\* what the network does for one download: the result of mxcToHttp and the
\* settlement of downloadBuffer (rejected, or resolved with these bytes)
\* no download is attempted
NoDownload == [http |-> Undef, rejected |-> FALSE, bytes |-> <<>>]

DownloadResults ==
  {[http |-> Undef, rejected |-> FALSE, bytes |-> <<>>],
   [http |-> <<"https://">>, rejected |-> TRUE, bytes |-> <<>>],
   [http |-> <<"https://">>, rejected |-> FALSE, bytes |-> <<>>],
   [http |-> <<"https://">>, rejected |-> FALSE, bytes |-> <<7, 9>>]}

\* Buffer.toString("base64"): bytes are the integers 0..255
Base64Alphabet ==
  <<"A", "B", "C", "D", "E", "F", "G", "H", "I", "J", "K", "L", "M", "N", "O",
    "P", "Q", "R", "S", "T", "U", "V", "W", "X", "Y", "Z", "a", "b", "c", "d",
    "e", "f", "g", "h", "i", "j", "k", "l", "m", "n", "o", "p", "q", "r", "s",
    "t", "u", "v", "w", "x", "y", "z", "0", "1", "2", "3", "4", "5", "6", "7",
    "8", "9", "+", "/">>

Sextet(n) == Base64Alphabet[(n % 64) + 1]

RECURSIVE toBase64Unpadded(_)
toBase64Unpadded(bytes) ==
  IF Len(bytes) = 0 THEN <<>>
  ELSE IF Len(bytes) = 1
  THEN <<Sextet(bytes[1] \div 4), Sextet((bytes[1] % 4) * 16)>>
  ELSE IF Len(bytes) = 2
  THEN <<Sextet(bytes[1] \div 4),
         Sextet((bytes[1] % 4) * 16 + bytes[2] \div 16),
         Sextet((bytes[2] % 16) * 4)>>
  ELSE <<Sextet(bytes[1] \div 4),
         Sextet((bytes[1] % 4) * 16 + bytes[2] \div 16),
         Sextet((bytes[2] % 16) * 4 + bytes[3] \div 64),
         Sextet(bytes[3])>>
       \o toBase64Unpadded(SubSeq(bytes, 4, Len(bytes)))

toBase64(bytes) ==
  toBase64Unpadded(bytes)
  \o (CASE Len(bytes) % 3 = 1 -> <<"=", "=">>
        [] Len(bytes) % 3 = 2 -> <<"=">>
        [] OTHER -> <<>>)

\* a wrong downloadMediaContent, without its checks of the download
downloadMediaContentUnchecked(mxcUrl, mimeType, fileName, net) ==
  [null |-> FALSE,
   url |-> <<"data:">> \o mimeType \o <<";base64,">> \o toBase64(net.bytes),
   title |-> fileName, source |-> mxcUrl, contentType |-> "IMAGE"]

downloadMediaContent(mxcUrl, mimeType, fileName, net) ==
  IF client = "null" THEN NullMedia
  ELSE IF ~Truthy(net.http) THEN NullMedia
  ELSE IF net.rejected THEN NullMedia
  ELSE IF Len(net.bytes) = 0 THEN NullMedia
  ELSE [null |-> FALSE,
        url |-> <<"data:">> \o mimeType \o <<";base64,">>
                \o toBase64(net.bytes),
        title |-> fileName, source |-> mxcUrl,
        contentType |->
          IF startsWith(mimeType, <<"image/">>) THEN "IMAGE"
          ELSE IF startsWith(mimeType, <<"video/">>) THEN "VIDEO"
          ELSE IF startsWith(mimeType, <<"audio/">>) THEN "AUDIO"
          ELSE "DOCUMENT"]

----------------------------------------------------------------------------
(* Message formatting                                                      *)

\* msgtype.replace("m.", "") and its toUpperCase()
mediaType(msgtype) ==
  CASE msgtype = "m.image" -> "image" [] msgtype = "m.file" -> "file"
    [] msgtype = "m.audio" -> "audio" [] OTHER -> "video"
mediaTypeUpper(msgtype) ==
  CASE msgtype = "m.image" -> "IMAGE" [] msgtype = "m.file" -> "FILE"
    [] msgtype = "m.audio" -> "AUDIO" [] OTHER -> "VIDEO"

\* handleRoomMessage downloads when the event is an image with url and mimetype
AttemptsDownload(e) ==
  e.msgtype = "m.image" /\ Truthy(e.url) /\ Truthy(e.mimetype)

\* messageText of handleRoomMessage; media is the download result.  The catch
\* around downloadMediaContent is not modelled: downloadMediaContent catches
\* every error itself and returns null.
PlainText(e, media) ==
  CASE e.msgtype = "m.emote" ->
         <<"*">> \o e.sender \o <<" ">> \o e.body \o <<"*">>
    [] e.msgtype = "m.notice" -> <<"[Notice] ">> \o e.body
    [] e.msgtype \in mediaTypes ->
         IF e.msgtype = "m.image" /\ Truthy(e.url)
         THEN <<"(camera) **IMAGE ATTACHED**: ">> \o OrElse(e.body, <<"image">>)
              \o <<"\n\n">> \o OrElse(e.body, <<"User shared an image">>)
              \o (IF Truthy(e.mimetype)
                  THEN IF ~media.null
                       THEN <<"\n\n(ok) Image successfully processed and available for analysis.">>
                       ELSE <<"\n\n(warn) Image could not be processed - content may not be accessible.">>
                  ELSE <<"\n\n(warn) Image metadata incomplete - cannot process for analysis.">>)
         ELSE <<"[", mediaTypeUpper(e.msgtype), "] ">>
              \o OrElse(e.body, <<"Shared a ", mediaType(e.msgtype)>>)
              \o (IF Truthy(e.url) THEN <<" (">> \o e.url \o <<")">> ELSE <<>>)
    [] OTHER -> e.body

\* a wrong decryption test, by msgtype alone
IsDecryptedByMsgtype(e) == e.msgtype # ""

\* handleEncryptedMessage: the SDK has decrypted the event in place
IsDecrypted(e) == e.msgtype # "" /\ Truthy(e.body)

\* a wrong handleEncryptedMessage, never downloading the image
EncryptedNeverDownloads(e) == FALSE

\* handleEncryptedMessage downloads when the decrypted content is an image
\* with url and mimetype
EncryptedAttemptsDownload(e) == IsDecrypted(e) /\ AttemptsDownload(e)

\* messageText of handleEncryptedMessage
EncryptedText(e, media) ==
  IF ~IsDecrypted(e) THEN <<"[Encrypted message - content not available]">>
  ELSE
  CASE e.msgtype = "m.emote" ->
         <<"*">> \o e.sender \o <<" ">> \o e.body \o <<"*">>
    [] e.msgtype = "m.notice" -> <<"[Notice] ">> \o e.body
    [] e.msgtype \in mediaTypes ->
         IF e.msgtype = "m.image" /\ Truthy(e.url)
         THEN <<"(lock)(camera) **ENCRYPTED IMAGE ATTACHED**: ">>
              \o OrElse(e.body, <<"encrypted_image">>)
              \o <<"\n\n">> \o OrElse(e.body, <<"User shared an encrypted image">>)
              \o (IF Truthy(e.mimetype)
                  THEN IF ~media.null
                       THEN <<"\n\n(ok) Encrypted image successfully decrypted and processed for analysis.">>
                       ELSE <<"\n\n(warn) Encrypted image could not be processed - content may not be accessible.">>
                  ELSE <<"\n\n(warn) Encrypted image metadata incomplete - cannot process for analysis.">>)
         ELSE <<"(lock)[", mediaTypeUpper(e.msgtype), "] ">>
              \o OrElse(e.body, <<"Shared an encrypted ", mediaType(e.msgtype)>>)
              \o (IF Truthy(e.url) THEN <<" (">> \o e.url \o <<")">> ELSE <<>>)
    [] OTHER -> e.body

\* attachments.length > 0 ? attachments : undefined
Attachments(media) ==
  IF media.null THEN [omitted |-> TRUE, list |-> <<>>]
  ELSE [omitted |-> FALSE, list |-> <<media>>]

\* The reply callback handed to the runtime: the closure captures roomId; the
\* event it was created for is kept with it to state the properties of replies.
Callback(kind, e) ==
  [kind |-> kind, roomId |-> e.roomId, event_id |-> e.event_id,
   sender |-> e.sender, body |-> e.body]

\* payload of emitEvent([MESSAGE_RECEIVED]) in handleRoomMessage
PlainPayload(e, room, media) ==
  [kinds |-> "MESSAGE_RECEIVED", originalEvent |-> e, room |-> room,
   callback |-> Callback("message", e),
   text |-> PlainText(e, media), channelType |-> channelType(room),
   attachments |-> Attachments(media), messageType |-> e.msgtype,
   isEncrypted |-> "undefined", isDecrypted |-> "undefined",
   isMedia |-> e.msgtype \in mediaTypes]

\* a wrong payload of handleEncryptedMessage, without isEncrypted
EncryptedPayloadUnflagged(e, room, media) ==
  [kinds |-> "MESSAGE_RECEIVED", originalEvent |-> e, room |-> room,
   callback |-> Callback("encrypted", e),
   text |-> EncryptedText(e, media), channelType |-> channelType(room),
   attachments |-> Attachments(media),
   messageType |-> IF IsDecrypted(e) THEN e.msgtype ELSE "m.room.encrypted",
   isEncrypted |-> "undefined",
   isDecrypted |-> IF IsDecrypted(e) THEN "true" ELSE "false",
   isMedia |-> IsDecrypted(e) /\ e.msgtype \in mediaTypes]

\* payload of emitEvent([MESSAGE_RECEIVED]) in handleEncryptedMessage
EncryptedPayload(e, room, media) ==
  [kinds |-> "MESSAGE_RECEIVED", originalEvent |-> e, room |-> room,
   callback |-> Callback("encrypted", e),
   text |-> EncryptedText(e, media), channelType |-> channelType(room),
   attachments |-> Attachments(media),
   messageType |-> IF IsDecrypted(e) THEN e.msgtype ELSE "m.room.encrypted",
   isEncrypted |-> "true",
   isDecrypted |-> IF IsDecrypted(e) THEN "true" ELSE "false",
   isMedia |-> IsDecrypted(e) /\ e.msgtype \in mediaTypes]

\* payload of emitEvent([REACTION_RECEIVED]) in handleReactionEvent
ReactionPayload(e) ==
  [kinds |-> "REACTION_RECEIVED", originalEvent |-> e, room |-> NoRoom,
   callback |-> Callback("reaction", e),
   text |-> <<"*Reacted with ">> \o e.key \o <<"*">>, channelType |-> "",
   attachments |-> Attachments(NullMedia), messageType |-> "",
   isEncrypted |-> "undefined", isDecrypted |-> "undefined", isMedia |-> FALSE]

\* payload of emitEvent([USER_JOINED]) / emitEvent([USER_LEFT]) in handleMemberEvent
MemberPayload(e, room) ==
  [kinds |-> IF e.membership = "join" THEN "USER_JOINED" ELSE "USER_LEFT",
   originalEvent |-> e, room |-> room, callback |-> Callback("none", e),
   text |-> <<>>, channelType |-> "", attachments |-> Attachments(NullMedia),
   messageType |-> "", isEncrypted |-> "undefined", isDecrypted |-> "undefined",
   isMedia |-> FALSE]

----------------------------------------------------------------------------
(* The image download in progress                                          *)

\* pc: where handleRoomMessage stands with respect to its await of
\* downloadMediaContent; stream: the HTTP exchange of downloadBuffer;
\* timer: the setTimeout of downloadBuffer is armed; outcome, reason, buffer:
\* the settlement of the promise of downloadBuffer; clock: time since the
\* download started; idle: time since the socket was last active;
\* settledAt: clock when the promise settled.
NoFetch ==
  [pc |-> "idle", e |-> BlankEvent, http |-> Undef, stream |-> "none",
   timer |-> FALSE, outcome |-> "pending", reason |-> "", chunks |-> <<>>,
   totalSize |-> 0, buffer |-> <<>>, clock |-> 0, idle |-> 0, settledAt |-> 0]

----------------------------------------------------------------------------
(* Listener callbacks                                                      *)

\* asked: the callback has called client.getUserId (the client was there)
NoTask ==
  [topic |-> "", handler |-> "", pc |-> "none", outcome |-> "", reason |-> "",
   raised |-> {}, asked |-> FALSE, calls |-> {}]

Started(topic, handler, pc) ==
  [topic |-> topic, handler |-> handler, pc |-> pc, outcome |-> "",
   reason |-> "", raised |-> {}, asked |-> FALSE, calls |-> {}]

\* the callback has made these calls to the client or the runtime
Called(t, c) == [t EXCEPT !.calls = @ \cup c]

\* the callback has returned at a filter (an early return)
Filtered(t, reason) ==
  [t EXCEPT !.pc = "done", !.outcome = "filtered", !.reason = reason]

\* the callback has ended in a catch block; raised is the failure caught
Errored(t, raised) ==
  [t EXCEPT !.pc = "done", !.outcome = "errored", !.raised = raised]

\* the callback has called emitEvent and returned; raised are the failures it
\* met and recovered from on the way
Forwarded(t, raised) ==
  [t EXCEPT !.pc = "done", !.outcome = "forwarded", !.raised = raised]

\* outcomes of a call that returns or throws
CallResults == {"ok", "throw"}

\* The SDK delivers a room event: every listener subscribed for it is to be called
SdkEmit(e) ==
  /\ task = NoTask /\ pending = <<>>
  /\ ev' = e
  /\ pending' = Topics(e)
  /\ emitCount' = 0
  /\ UNCHANGED <<task, emitted, client, listVars, replyVars, mediaVars, contextVars, worldVars, sendVars>>

\* A listener calls handleRoomMessage, which runs to its await of getUserId
InvokeRoomMessage ==
  /\ task = NoTask /\ pending # <<>>
  /\ HandlerFor(Head(pending), ev) = "handleRoomMessage"
  /\ task' = [Started(Head(pending), "handleRoomMessage", "begin")
               EXCEPT !.asked = (client = "up"),
                      !.calls = IF client = "up" THEN {"getUserId"} ELSE {}]
  /\ pending' = Tail(pending)
  /\ emitted' = <<>>
  /\ UNCHANGED <<ev, emitCount, client, listVars, replyVars, mediaVars, contextVars, worldVars, sendVars>>

\* a wrong handleRoomMessage, resolving the room before it filters
RoomMessageFiltersLate(uid) ==
  /\ task.handler = "handleRoomMessage" /\ task.pc = "begin"
  /\ LET t == Called(task, {"getRoomInfo"})
     IN task' =
       IF task.asked /\ uid = "throw" THEN Errored(task, {"identity"})
       ELSE IF client = "null" THEN Errored(t, {"client"})
       ELSE IF task.asked /\ ev.sender = SelfId THEN Filtered(t, "self")
       ELSE IF RoomRestricted(ev.roomId) THEN Filtered(t, "room")
       ELSE IF shouldIgnoreBotMessages /\ includes(ev.sender, <<"b", "o", "t">>)
            THEN Filtered(t, "bot")
       ELSE IF ev.msgtype \notin supportedTypes THEN Filtered(t, "unsupported")
       ELSE [t EXCEPT !.pc = "ctx"]
  /\ UNCHANGED <<ev, pending, emitted, emitCount, client, listVars,
                 replyVars, mediaVars, contextVars, worldVars, sendVars>>

\* handleRoomMessage from the result of getUserId to the call of getRoomInfo
RoomMessageFilters(uid) ==
  /\ task.handler = "handleRoomMessage" /\ task.pc = "begin"
  /\ task' =
       IF task.asked /\ uid = "throw" THEN Errored(task, {"identity"})
       ELSE IF task.asked /\ ev.sender = SelfId THEN Filtered(task, "self")
       ELSE IF RoomRestricted(ev.roomId) THEN Filtered(task, "room")
       ELSE IF shouldIgnoreBotMessages /\ includes(ev.sender, <<"b", "o", "t">>)
            THEN Filtered(task, "bot")
       ELSE IF ev.msgtype \notin supportedTypes THEN Filtered(task, "unsupported")
       ELSE IF client = "null"
            THEN Errored(Called(task, {"getRoomInfo"}), {"client"})
       ELSE [Called(task, {"getRoomInfo"}) EXCEPT !.pc = "ctx"]
  /\ UNCHANGED <<ev, pending, emitted, emitCount, client, listVars,
                 replyVars, mediaVars, contextVars, worldVars, sendVars>>

\* this.client?.getUserProfile: no call without a client
ProfileCall == IF client = "up" THEN {"getUserProfile"} ELSE {}

\* failures met and recovered while resolving the room and the sender profile
Recovered(room, profile) ==
  (IF room.memberCount = 0 THEN {"context"} ELSE {})
    \cup (IF profile = "throw" THEN {"profile"} ELSE {})

\* handleRoomMessage from the results of getRoomInfo, getUserProfile and
\* ensureConnection to emitEvent
RoomMessageProcess(room, profile, ensure, net, emit) ==
  /\ task.handler = "handleRoomMessage" /\ task.pc = "ctx"
  /\ LET media == IF AttemptsDownload(ev)
                  THEN downloadMediaContent(ev.url, ev.mimetype,
                                            OrElse(ev.body, <<"image">>), net)
                  ELSE NullMedia
         raised == Recovered(room, profile)
                     \cup (IF AttemptsDownload(ev) /\ media.null
                           THEN {"media"} ELSE {})
         connected == Called(task, ProfileCall \cup {"ensureConnection"})
         emitting == Called(connected,
                            (IF AttemptsDownload(ev)
                             THEN {"downloadMediaContent"} ELSE {})
                              \cup {"emitEvent"})
     IN  IF ensure = "throw"
         THEN /\ task' = Errored(connected, {"ensureConnection"})
              /\ UNCHANGED <<emitted, emitCount>>
         ELSE IF emit = "throw"
         THEN /\ task' = Errored(emitting, {"emit"})
              /\ UNCHANGED <<emitted, emitCount>>
         ELSE /\ task' = Forwarded(emitting, raised)
              /\ emitted' = Append(emitted, PlainPayload(ev, room, media))
              /\ emitCount' = emitCount + 1
  /\ UNCHANGED <<ev, pending, client, listVars, replyVars, mediaVars, contextVars, worldVars, sendVars>>

\* The room.event listener calls handleEncryptedMessage
InvokeEncrypted ==
  /\ task = NoTask /\ pending # <<>>
  /\ HandlerFor(Head(pending), ev) = "handleEncryptedMessage"
  /\ task' = [Started(Head(pending), "handleEncryptedMessage", "begin")
               EXCEPT !.asked = (client = "up"),
                      !.calls = IF client = "up" THEN {"getUserId"} ELSE {}]
  /\ pending' = Tail(pending)
  /\ emitted' = <<>>
  /\ UNCHANGED <<ev, emitCount, client, listVars, replyVars, mediaVars, contextVars, worldVars, sendVars>>

\* handleEncryptedMessage from the result of getUserId to the call of getRoomInfo
EncryptedFilters(uid) ==
  /\ task.handler = "handleEncryptedMessage" /\ task.pc = "begin"
  /\ task' =
       IF task.asked /\ uid = "throw" THEN Errored(task, {"identity"})
       ELSE IF task.asked /\ ev.sender = SelfId THEN Filtered(task, "self")
       ELSE IF RoomRestricted(ev.roomId) THEN Filtered(task, "room")
       ELSE IF client = "null"
            THEN Errored(Called(task, {"getRoomInfo"}), {"client"})
       ELSE [Called(task, {"getRoomInfo"}) EXCEPT !.pc = "ctx"]
  /\ UNCHANGED <<ev, pending, emitted, emitCount, client, listVars,
                 replyVars, mediaVars, contextVars, worldVars, sendVars>>

\* handleEncryptedMessage from the results of getRoomInfo, getUserProfile and
\* ensureConnection to emitEvent
EncryptedProcess(room, profile, ensure, net, emit) ==
  /\ task.handler = "handleEncryptedMessage" /\ task.pc = "ctx"
  /\ LET media == IF EncryptedAttemptsDownload(ev)
                  THEN downloadMediaContent(ev.url, ev.mimetype,
                                            OrElse(ev.body, <<"encrypted_image">>),
                                            net)
                  ELSE NullMedia
         raised == Recovered(room, profile)
                     \cup (IF EncryptedAttemptsDownload(ev) /\ media.null
                           THEN {"media"} ELSE {})
         connected == Called(task, ProfileCall \cup {"ensureConnection"})
         emitting == Called(connected,
                            (IF EncryptedAttemptsDownload(ev)
                             THEN {"downloadMediaContent"} ELSE {})
                              \cup {"emitEvent"})
     IN  IF ensure = "throw"
         THEN /\ task' = Errored(connected, {"ensureConnection"})
              /\ UNCHANGED <<emitted, emitCount>>
         ELSE IF emit = "throw"
         THEN /\ task' = Errored(emitting, {"emit"})
              /\ UNCHANGED <<emitted, emitCount>>
         ELSE /\ task' = Forwarded(emitting, raised)
              /\ emitted' = Append(emitted, EncryptedPayload(ev, room, media))
              /\ emitCount' = emitCount + 1
  /\ UNCHANGED <<ev, pending, client, listVars, replyVars, mediaVars, contextVars, worldVars, sendVars>>

\* The room.event listener calls handleReactionEvent, which has no await
InvokeReaction(emit) ==
  /\ task = NoTask /\ pending # <<>>
  /\ HandlerFor(Head(pending), ev) = "handleReactionEvent"
  /\ pending' = Tail(pending)
  /\ LET t == Started(Head(pending), "handleReactionEvent", "begin")
     IN  IF ev.rel_type # "m.annotation"
         THEN /\ task' = Filtered(t, "relation")
              /\ emitted' = <<>>
              /\ UNCHANGED emitCount
         ELSE IF emit = "throw"
         THEN /\ task' = Errored(Called(t, {"emitEvent"}), {"emit"})
              /\ emitted' = <<>>
              /\ UNCHANGED emitCount
         ELSE /\ task' = Forwarded(Called(t, {"emitEvent"}), {})
              /\ emitted' = <<ReactionPayload(ev)>>
              /\ emitCount' = emitCount + 1
  /\ UNCHANGED <<ev, client, listVars, replyVars, mediaVars, contextVars, worldVars, sendVars>>

\* The room.event listener calls handleMemberEvent, which runs to the await
\* inside getRoomInfo
InvokeMember ==
  /\ task = NoTask /\ pending # <<>>
  /\ HandlerFor(Head(pending), ev) = "handleMemberEvent"
  /\ pending' = Tail(pending)
  /\ emitted' = <<>>
  /\ LET t == Started(Head(pending), "handleMemberEvent", "begin")
     IN  task' = IF ev.membership \notin {"join", "leave"}
                 THEN [t EXCEPT !.pc = "done", !.outcome = "ignored"]
                 ELSE IF client = "null"
                 THEN Errored(Called(t, {"getRoomInfo"}), {"client"})
                 ELSE [Called(t, {"getRoomInfo"}) EXCEPT !.pc = "ctx"]
  /\ UNCHANGED <<ev, emitCount, client, listVars, replyVars, mediaVars, contextVars, worldVars, sendVars>>

\* handleMemberEvent from the result of getRoomInfo to emitEvent
MemberProcess(room, emit) ==
  /\ task.handler = "handleMemberEvent" /\ task.pc = "ctx"
  /\ IF emit = "throw"
     THEN /\ task' = Errored(Called(task, {"emitEvent"}), {"emit"})
          /\ UNCHANGED <<emitted, emitCount>>
     ELSE /\ task' = Forwarded(Called(task, {"emitEvent"}), Recovered(room, "ok"))
          /\ emitted' = Append(emitted, MemberPayload(ev, room))
          /\ emitCount' = emitCount + 1
  /\ UNCHANGED <<ev, pending, client, listVars, replyVars, mediaVars, contextVars, worldVars, sendVars>>

\* The room.event listener has no branch for the event's type
InvokeOther ==
  /\ task = NoTask /\ pending # <<>>
  /\ HandlerFor(Head(pending), ev) = "none"
  /\ pending' = Tail(pending)
  /\ emitted' = <<>>
  /\ task' = [Started(Head(pending), "none", "done") EXCEPT !.outcome = "ignored"]
  /\ UNCHANGED <<ev, emitCount, client, listVars, replyVars, mediaVars, contextVars, worldVars, sendVars>>

\* a faulty dispatcher in which a failed callback takes the remaining
\* listeners of the event down with it
ReturnHalting ==
  /\ task.pc = "done"
  /\ task' = NoTask
  /\ emitted' = <<>>
  /\ IF pending = <<>> \/ task.outcome = "errored"
     THEN ev' = BlankEvent /\ emitCount' = 0 /\ pending' = <<>>
     ELSE UNCHANGED <<ev, emitCount, pending>>
  /\ UNCHANGED <<client, listVars, replyVars, mediaVars, contextVars, worldVars, sendVars>>

\* The listener callback returns; nothing of it is kept
Return ==
  /\ task.pc = "done"
  /\ task' = NoTask
  /\ emitted' = <<>>
  /\ IF pending = <<>>
     THEN ev' = BlankEvent /\ emitCount' = 0
     ELSE UNCHANGED <<ev, emitCount>>
  /\ UNCHANGED <<pending, client, listVars, replyVars, mediaVars, contextVars, worldVars, sendVars>>

----------------------------------------------------------------------------
(* Join and leave actions, stop                                            *)

\* a wrong joinRoom.handler, calling addAllowedRoom before client.joinRoom
JoinRoomEager(joinedRoomId, res) ==
  /\ client = "up"
  /\ dynamicRoomIds' = addAllowedRoom(joinedRoomId)
  /\ UNCHANGED <<allowedRoomIds, shouldIgnoreBotMessages, everJoined, client,
                 dispatchVars, replyVars, mediaVars, contextVars, worldVars, sendVars>>

\* joinRoom.handler: client.joinRoom, then addAllowedRoom on success
JoinRoom(joinedRoomId, res) ==
  /\ client = "up"
  /\ dynamicRoomIds' = IF res = "ok" THEN addAllowedRoom(joinedRoomId)
                       ELSE dynamicRoomIds
  /\ UNCHANGED <<allowedRoomIds, shouldIgnoreBotMessages, everJoined, client,
                 dispatchVars, replyVars, mediaVars, contextVars, worldVars, sendVars>>

\* the same handler, with the rooms it added recorded in everJoined
JoinRoomRecorded(joinedRoomId, res) ==
  /\ client = "up"
  /\ dynamicRoomIds' = IF res = "ok" THEN addAllowedRoom(joinedRoomId)
                       ELSE dynamicRoomIds
  /\ everJoined' = IF res = "ok" THEN everJoined \cup {joinedRoomId}
                   ELSE everJoined
  /\ UNCHANGED <<allowedRoomIds, shouldIgnoreBotMessages, client, dispatchVars,
                 replyVars, mediaVars, contextVars, worldVars, sendVars>>

\* leaveRoom.handler: client.leaveRoom, then removeAllowedRoom on success
LeaveRoom(roomId, res) ==
  /\ client = "up"
  /\ IF res = "ok"
     THEN dynamicRoomIds' = removeAllowedRoom(roomId)
     ELSE UNCHANGED dynamicRoomIds
  /\ UNCHANGED <<allowedRoomIds, shouldIgnoreBotMessages, everJoined, client,
                 dispatchVars, replyVars, mediaVars, contextVars, worldVars, sendVars>>

\* stop()
Stop ==
  /\ client = "up"
  /\ client' = "null"
  /\ UNCHANGED <<listVars, dispatchVars, replyVars, mediaVars, contextVars, worldVars, sendVars>>

----------------------------------------------------------------------------
(* The dispatcher                                                          *)

Init ==
  /\ client = "up"
  /\ allowedRoomIds \in {ParseRoomIds(raw) : raw \in RoomIdSettings}
  /\ dynamicRoomIds = {}
  /\ shouldIgnoreBotMessages \in BOOLEAN
  /\ ev = BlankEvent
  /\ pending = <<>>
  /\ task = NoTask
  /\ emitted = <<>>
  /\ emitCount = 0
  /\ everJoined = {}
  /\ replies = <<>>
  /\ sends = <<>>
  /\ fetch = NoFetch
  /\ lookup = NoLookup
  /\ world = NoWorld
  /\ outbound = NoOutbound

Next ==
  \/ \E e \in RoomEvents : SdkEmit(e)
  \/ InvokeRoomMessage
  \/ \E uid \in CallResults : RoomMessageFilters(uid)
  \/ \E room \in RoomInfos(ev.roomId), profile \in CallResults,
        ensure \in CallResults, emit \in CallResults,
        net \in IF AttemptsDownload(ev) THEN DownloadResults ELSE {NoDownload} :
       RoomMessageProcess(room, profile, ensure, net, emit)
  \/ InvokeEncrypted
  \/ \E uid \in CallResults : EncryptedFilters(uid)
  \/ \E room \in RoomInfos(ev.roomId), profile \in CallResults,
        ensure \in CallResults, emit \in CallResults,
        net \in IF EncryptedAttemptsDownload(ev) THEN DownloadResults
                ELSE {NoDownload} :
       EncryptedProcess(room, profile, ensure, net, emit)
  \/ \E emit \in CallResults : InvokeReaction(emit)
  \/ InvokeMember
  \/ \E room \in RoomInfos(ev.roomId), emit \in CallResults :
       MemberProcess(room, emit)
  \/ InvokeOther
  \/ Return
  \/ \E r \in Rooms, res \in CallResults : JoinRoom(r, res)
  \/ \E r \in Rooms, res \in CallResults : LeaveRoom(r, res)
  \/ Stop

Spec == Init /\ [][Next]_vars

----------------------------------------------------------------------------
(* The dispatcher observed for the rooms joined: message and encrypted     *)
(* events only, joins recorded in everJoined                               *)

RoomsEvents ==
  {e \in MessageEvents :
     /\ e.msgtype \in {"m.text", "m.location"}
     /\ e.body = <<"h", "i">>}

NextRooms ==
  \/ \E e \in RoomsEvents : SdkEmit(e)
  \/ InvokeRoomMessage
  \/ \E uid \in CallResults : RoomMessageFilters(uid)
  \/ \E room \in RoomInfos(ev.roomId), profile \in CallResults,
        ensure \in CallResults, emit \in CallResults :
       RoomMessageProcess(room, profile, ensure, NoDownload, emit)
  \/ InvokeEncrypted
  \/ \E uid \in CallResults : EncryptedFilters(uid)
  \/ \E room \in RoomInfos(ev.roomId), profile \in CallResults,
        ensure \in CallResults, emit \in CallResults :
       EncryptedProcess(room, profile, ensure, NoDownload, emit)
  \/ Return
  \/ \E r \in Rooms, res \in CallResults : JoinRoomRecorded(r, res)
  \/ \E r \in Rooms, res \in CallResults : LeaveRoom(r, res)
  \/ Stop

SpecRooms == Init /\ [][NextRooms]_vars

----------------------------------------------------------------------------
(* Reply callbacks                                                         *)

\* stands for the 4096 of splitMessage(content.text, 4096)
ChunkLimit == 3

\* number of reply callbacks the runtime invokes
NReplies == 2

\* a wrong slicing of a long line, keeping its first slice only
SlicesFirstOnly(line, maxLength) == <<SubSeq(line, 1, maxLength)>>

\* line.substring(i, i + maxLength) for i = 0, maxLength, ...
RECURSIVE Slices(_, _)
Slices(line, maxLength) ==
  IF Len(line) = 0 THEN <<>>
  ELSE IF Len(line) <= maxLength THEN <<line>>
  ELSE <<SubSeq(line, 1, maxLength)>>
         \o Slices(SubSeq(line, maxLength + 1, Len(line)), maxLength)

\* the for-loop of splitMessage over the remaining lines
RECURSIVE SplitLines(_, _, _, _)
SplitLines(lines, chunks, currentChunk, maxLength) ==
  IF lines = <<>>
  THEN IF currentChunk # <<>> THEN Append(chunks, currentChunk) ELSE chunks
  ELSE LET line == Head(lines)
           pushed == IF currentChunk # <<>> THEN Append(chunks, currentChunk)
                     ELSE chunks
       IN  IF Len(currentChunk) + Len(line) + 1 <= maxLength
           THEN SplitLines(Tail(lines), chunks,
                           currentChunk
                             \o (IF currentChunk # <<>> THEN <<"\n">> ELSE <<>>)
                             \o line,
                           maxLength)
           ELSE IF Len(line) > maxLength
           THEN SplitLines(Tail(lines), pushed \o Slices(line, maxLength), <<>>,
                           maxLength)
           ELSE SplitLines(Tail(lines), pushed, line, maxLength)

splitMessage(text, maxLength) ==
  SplitLines(split(text, "\n"), <<>>, <<>>, maxLength)

\* content.text values the runtime replies with
ReplyTexts ==
  {<<>>, <<"a", "<">>, <<"a", "b", "\n", "c", "d">>,
   <<"a", "b", "c", "d", "e", "f", "g">>}

\* the events whose callbacks the runtime holds; the profile lookup of their
\* sender had succeeded (the callbacks do not read the display name)
RepliedEvents ==
  {[BlankEvent EXCEPT !.type = "m.room.message", !.roomId = <<"A">>,
                      !.sender = <<"@", "u">>, !.msgtype = "m.text",
                      !.body = <<"h", "i">>],
   [BlankEvent EXCEPT !.type = "m.room.encrypted", !.roomId = <<"B">>,
                      !.sender = <<"@", "u">>, !.msgtype = "m.text",
                      !.body = <<"h", "i">>],
   [BlankEvent EXCEPT !.type = "m.reaction", !.roomId = <<"A">>,
                      !.sender = <<"@", "u">>, !.body = Undef,
                      !.rel_type = "m.annotation", !.rel_event_id = TargetId,
                      !.key = <<"+">>]}

CallbackOf(e) ==
  CASE e.type = "m.room.message" -> PlainPayload(e, MinimalRoom(e.roomId), NullMedia).callback
    [] e.type = "m.room.encrypted" -> EncryptedPayload(e, MinimalRoom(e.roomId), NullMedia).callback
    [] OTHER -> ReactionPayload(e).callback

\* the bodies a callback sends for content.text, one sendMessage call each
ReplyChunks(kind, text) ==
  IF ~Truthy(text) THEN <<>>
  ELSE IF kind = "reaction" THEN <<text>>
  ELSE splitMessage(text, ChunkLimit)

\* the content object a callback passes to sendMessage
ReplyContent(cb, chunk) == [msgtype |-> "m.text", body |-> chunk]

\* a faulty loop that calls sendMessage for every remaining chunk without
\* awaiting any of them
LoopCallsNoAwait(chunks, k) == [j \in 1..(Len(chunks) - k + 1) |-> k + j - 1]

\* indices of the chunks whose sendMessage is called, from chunk k on, before
\* the callback next suspends: `await` suspends it at every call
LoopCalls(chunks, k) == IF k <= Len(chunks) THEN <<k>> ELSE <<>>

NewSends(i, cb, chunks, k) ==
  LET calls == LoopCalls(chunks, k)
  IN  [j \in 1..Len(calls) |->
         [reply |-> i, idx |-> calls[j], roomId |-> cb.roomId,
          content |-> ReplyContent(cb, chunks[calls[j]]), state |-> "inflight"]]

\* The runtime invokes reply callback i with content.text = text; the callback
\* runs to its first await
InvokeCallback(i, text) ==
  /\ replies[i].pc = "idle"
  /\ LET cb == replies[i].cb
         chunks == ReplyChunks(cb.kind, text)
     IN  IF chunks = <<>> \/ client = "null"
         THEN /\ replies' = [replies EXCEPT ![i].pc = "returned",
                                            ![i].text = text,
                                            ![i].chunks = chunks]
              /\ UNCHANGED sends
         ELSE /\ replies' = [replies EXCEPT ![i].pc = "awaiting",
                                            ![i].text = text,
                                            ![i].chunks = chunks, ![i].k = 1]
              /\ sends' = sends \o NewSends(i, cb, chunks, 1)
  /\ UNCHANGED <<client, listVars, dispatchVars, mediaVars, contextVars, worldVars, sendVars>>

\* position in sends of the oldest call of reply i still in flight
Oldest(i) ==
  CHOOSE n \in 1..Len(sends) :
    /\ sends[n].reply = i /\ sends[n].state = "inflight"
    /\ \A m \in 1..(n - 1) : ~(sends[m].reply = i /\ sends[m].state = "inflight")

\* A sendMessage promise of reply i settles and the callback resumes
SendComplete(i, res) ==
  /\ replies[i].pc = "awaiting"
  /\ LET r == replies[i]
         n == Oldest(i)
         settled == [sends EXCEPT ![n].state = IF res = "ok" THEN "done"
                                               ELSE "failed"]
     IN  IF res = "throw"
         THEN /\ replies' = [replies EXCEPT
                               ![i].pc = "returned",
                               ![i].caught = (r.cb.kind # "reaction"),
                               ![i].rejected = (r.cb.kind = "reaction")]
              /\ sends' = settled
         ELSE IF r.k < Len(r.chunks) /\ client = "up"
         THEN /\ replies' = [replies EXCEPT ![i].k = r.k + 1]
              /\ sends' = settled \o NewSends(i, r.cb, r.chunks, r.k + 1)
         ELSE /\ replies' = [replies EXCEPT ![i].pc = "returned"]
              /\ sends' = settled
  /\ UNCHANGED <<client, listVars, dispatchVars, mediaVars, contextVars, worldVars, sendVars>>

IdleReply(cb) ==
  [cb |-> cb, pc |-> "idle", text |-> <<>>, chunks |-> <<>>, k |-> 0,
   caught |-> FALSE, rejected |-> FALSE]

InitReply ==
  /\ client = "up"
  /\ allowedRoomIds = NoList
  /\ dynamicRoomIds = {}
  /\ shouldIgnoreBotMessages = TRUE
  /\ ev = BlankEvent
  /\ pending = <<>>
  /\ task = NoTask
  /\ emitted = <<>>
  /\ emitCount = 0
  /\ everJoined = {}
  /\ replies \in [1..NReplies -> {IdleReply(CallbackOf(e)) : e \in RepliedEvents}]
  /\ sends = <<>>
  /\ fetch = NoFetch
  /\ lookup = NoLookup
  /\ world = NoWorld
  /\ outbound = NoOutbound

NextReply ==
  \/ \E i \in 1..NReplies, text \in ReplyTexts : InvokeCallback(i, text)
  \/ \E i \in 1..NReplies, res \in CallResults : SendComplete(i, res)
  \/ Stop

SpecReply == InitReply /\ [][NextReply]_vars

----------------------------------------------------------------------------
(* One reply callback over all short texts                                 *)

\* longest content.text
MaxTextLen == 5

TextAlphabet == {"a", "b", "\n"}

\* every content.text of at most MaxTextLen characters
SplitTexts == UNION {[1..n -> TextAlphabet] : n \in 0..MaxTextLen}

\* the runtime invokes the first callback it holds, and its sends settle
NextSplit ==
  \/ \E text \in SplitTexts : InvokeCallback(1, text)
  \/ \E res \in CallResults : SendComplete(1, res)

SpecSplit == InitReply /\ [][NextSplit]_vars

----------------------------------------------------------------------------
(* downloadBuffer and the image branch of handleRoomMessage around it      *)

\* the 30000 ms of setTimeout and of request.setTimeout, in clock ticks
TimeoutTicks == 2
\* maxSize of downloadBuffer (50 * 1024 * 1024), in bytes of the model
maxSize == 3
\* the clock stops here
MaxClock == 4
\* the server sends at most this many bytes
MaxReceived == 5

DataChunks == {<<7>>, <<9, 255>>}
HttpStatuses == {200, 404}
FetchMimeTypes == {<<"image/", "png">>, <<"video/", "mp4">>}

\* image events that pass the filters of handleRoomMessage and for which it
\* calls downloadMediaContent
FetchEvents ==
  {[BlankEvent EXCEPT !.type = "m.room.message", !.roomId = <<"A">>,
                      !.sender = <<"@", "u">>, !.msgtype = "m.image",
                      !.body = b, !.url = <<"mxc://", "f", ".png">>,
                      !.mimetype = m] :
     b \in Bodies, m \in FetchMimeTypes}

\* a wrong Buffer.concat, the chunks in reverse order
RECURSIVE ConcatReversed(_)
ConcatReversed(chunks) ==
  IF chunks = <<>> THEN <<>> ELSE ConcatReversed(Tail(chunks)) \o Head(chunks)

\* Buffer.concat
RECURSIVE Concat(_)
Concat(chunks) ==
  IF chunks = <<>> THEN <<>> ELSE Head(chunks) \o Concat(Tail(chunks))

\* reject(): a promise settles once
Reject(f, why) ==
  IF f.outcome = "pending"
  THEN [f EXCEPT !.outcome = "rejected", !.reason = why, !.settledAt = f.clock]
  ELSE f

\* a wrong resolve(), settling a promise that is settled already
ResolveLate(f, buffer) ==
  [f EXCEPT !.outcome = "resolved", !.buffer = buffer, !.settledAt = f.clock]

\* resolve(): a promise settles once
Resolve(f, buffer) ==
  IF f.outcome = "pending"
  THEN [f EXCEPT !.outcome = "resolved", !.buffer = buffer,
                 !.settledAt = f.clock]
  ELSE f

StreamOpen(f) == f.stream \in {"connecting", "receiving"}

\* what mxcToHttp may answer
HttpUrls == {Undef, <<"https:", "//", "m">>, <<"ftp:", "//", "m">>}

\* http.get and https.get accept these protocols and throw on any other
HttpProtocols == {"http:", "https:"}

\* a wrong start of the download, sending the request whatever the URL
StartDownloadUnguarded(e, httpUrl) ==
  /\ fetch.pc = "idle"
  /\ client = "up"
  /\ AttemptsDownload(e)
  /\ fetch' = [fetch EXCEPT !.pc = "awaiting", !.e = e, !.http = httpUrl,
                            !.stream = "connecting", !.timer = TRUE]
  /\ UNCHANGED <<client, listVars, dispatchVars, replyVars, contextVars, worldVars, sendVars>>

\* handleRoomMessage calls downloadMediaContent(url, mimetype, fileName);
\* mxcToHttp answers httpUrl; with a URL, downloadBuffer arms its timer and
\* sends the request; client.get throws on a URL of another protocol, which
\* rejects the promise with the timer left armed
StartDownload(e, httpUrl) ==
  /\ fetch.pc = "idle"
  /\ client = "up"
  /\ AttemptsDownload(e)
  /\ fetch' =
       IF ~Truthy(httpUrl)
       THEN [fetch EXCEPT !.pc = "awaiting", !.e = e, !.http = httpUrl,
                          !.outcome = "notStarted", !.reason = "locator"]
       ELSE IF Head(httpUrl) \notin HttpProtocols
       THEN [fetch EXCEPT !.pc = "awaiting", !.e = e, !.http = httpUrl,
                          !.timer = TRUE,
                          !.outcome = "rejected", !.reason = "locator"]
       ELSE [fetch EXCEPT !.pc = "awaiting", !.e = e, !.http = httpUrl,
                          !.stream = "connecting", !.timer = TRUE]
  /\ UNCHANGED <<client, listVars, dispatchVars, replyVars, contextVars, worldVars, sendVars>>

\* time passes; a timer that is due fires before time passes further
Tick ==
  /\ StreamOpen(fetch) \/ fetch.timer
  /\ fetch.clock < MaxClock
  /\ ~(fetch.timer /\ fetch.clock >= TimeoutTicks)
  /\ ~(StreamOpen(fetch) /\ fetch.idle >= TimeoutTicks)
  /\ fetch' = [fetch EXCEPT !.clock = @ + 1, !.idle = @ + 1]
  /\ UNCHANGED <<client, listVars, dispatchVars, replyVars, contextVars, worldVars, sendVars>>

\* the callback of client.get: the response headers have arrived
ResponseCallback(statusCode) ==
  /\ fetch.stream = "connecting"
  /\ fetch' =
       IF statusCode # 200
       THEN Reject([fetch EXCEPT !.timer = FALSE, !.stream = "closed",
                                 !.idle = 0], "status")
       ELSE [fetch EXCEPT !.timer = FALSE, !.stream = "receiving", !.idle = 0]
  /\ UNCHANGED <<client, listVars, dispatchVars, replyVars, contextVars, worldVars, sendVars>>

\* response.on("data")
OnData(chunk) ==
  /\ fetch.stream = "receiving"
  /\ fetch.totalSize + Len(chunk) <= MaxReceived
  /\ LET totalSize == fetch.totalSize + Len(chunk)
         f == [fetch EXCEPT !.totalSize = totalSize, !.idle = 0]
     IN fetch' =
          IF totalSize > maxSize
          THEN Reject([f EXCEPT !.timer = FALSE], "tooLarge")
          ELSE [f EXCEPT !.chunks = Append(@, chunk)]
  /\ UNCHANGED <<client, listVars, dispatchVars, replyVars, contextVars, worldVars, sendVars>>

\* response.on("end")
OnEnd ==
  /\ fetch.stream = "receiving"
  /\ fetch' = Resolve([fetch EXCEPT !.timer = FALSE, !.stream = "closed"],
                      Concat(fetch.chunks))
  /\ UNCHANGED <<client, listVars, dispatchVars, replyVars, contextVars, worldVars, sendVars>>

\* response.on("error") and the "error" listener of the request
OnError ==
  /\ StreamOpen(fetch)
  /\ fetch' = Reject([fetch EXCEPT !.timer = FALSE, !.stream = "closed"],
                     "transport")
  /\ UNCHANGED <<client, listVars, dispatchVars, replyVars, contextVars, worldVars, sendVars>>

\* the callback of setTimeout(..., 30000): it rejects and leaves the request
\* alone
TimeoutFires ==
  /\ fetch.timer
  /\ fetch.clock >= TimeoutTicks
  /\ fetch' = Reject([fetch EXCEPT !.timer = FALSE], "timeout")
  /\ UNCHANGED <<client, listVars, dispatchVars, replyVars, contextVars, worldVars, sendVars>>

\* the callback of request.setTimeout(30000): the socket has been idle
RequestTimeout ==
  /\ StreamOpen(fetch)
  /\ fetch.idle >= TimeoutTicks
  /\ fetch' = Reject([fetch EXCEPT !.timer = FALSE, !.stream = "destroyed"],
                     "timeout")
  /\ UNCHANGED <<client, listVars, dispatchVars, replyVars, contextVars, worldVars, sendVars>>

\* what downloadMediaContent has seen of the network when it resumes
NetOf(f) ==
  [http |-> f.http, rejected |-> f.outcome = "rejected", bytes |-> f.buffer]

MediaOf(f) ==
  downloadMediaContent(f.e.url, f.e.mimetype, OrElse(f.e.body, <<"image">>),
                       NetOf(f))

\* downloadMediaContent returns; handleRoomMessage completes messageText and
\* attachments and goes on to emitEvent (the calls in between succeed)
DownloadReturns(room) ==
  /\ fetch.pc = "awaiting"
  /\ fetch.outcome # "pending"
  /\ fetch' = [fetch EXCEPT !.pc = "returned"]
  /\ emitted' = <<PlainPayload(fetch.e, room, MediaOf(fetch))>>
  /\ emitCount' = emitCount + 1
  /\ UNCHANGED <<client, listVars, ev, pending, task, replyVars, contextVars, worldVars, sendVars>>

InitFetch ==
  /\ client = "up"
  /\ allowedRoomIds = NoList
  /\ dynamicRoomIds = {}
  /\ shouldIgnoreBotMessages = TRUE
  /\ ev = BlankEvent
  /\ pending = <<>>
  /\ task = NoTask
  /\ emitted = <<>>
  /\ emitCount = 0
  /\ everJoined = {}
  /\ replies = <<>>
  /\ sends = <<>>
  /\ fetch = NoFetch
  /\ lookup = NoLookup
  /\ world = NoWorld
  /\ outbound = NoOutbound

NextFetch ==
  \/ \E e \in FetchEvents, httpUrl \in HttpUrls :
       StartDownload(e, httpUrl)
  \/ Tick
  \/ \E statusCode \in HttpStatuses : ResponseCallback(statusCode)
  \/ \E chunk \in DataChunks : OnData(chunk)
  \/ OnEnd
  \/ OnError
  \/ TimeoutFires
  \/ RequestTimeout
  \/ \E room \in RoomInfos(fetch.e.roomId) : DownloadReturns(room)

SpecFetch == InitFetch /\ [][NextFetch]_vars

----------------------------------------------------------------------------
(* getRoomInfo, query by query, and the message emitted with its result    *)

FailedMembers == [ok |-> FALSE, count |-> 0]

Returned(l, st, mem, acct) ==
  [l EXCEPT !.pc = "returned", !.st = st, !.mem = mem, !.acct = acct,
            !.room = getRoomInfo(l.roomId, st, mem, acct)]

\* getRoomInfo(roomId) up to its first await: it throws without a client
GetRoomInfoCalled(roomId) ==
  /\ lookup.pc = "idle"
  /\ lookup' = IF client = "null"
               THEN [lookup EXCEPT !.pc = "raised", !.roomId = roomId]
               ELSE [lookup EXCEPT !.pc = "state", !.roomId = roomId]
  /\ UNCHANGED <<client, listVars, dispatchVars, replyVars, mediaVars, worldVars, sendVars>>

\* getRoomState has settled; getRoomMembers is called on this.client, which
\* is a TypeError inside the try once stop() has run
RoomStateResult(st) ==
  /\ lookup.pc = "state"
  /\ lookup' = IF ~st.ok \/ client = "null"
               THEN Returned(lookup, st, FailedMembers, "none")
               ELSE [lookup EXCEPT !.pc = "members", !.st = st]
  /\ UNCHANGED <<client, listVars, dispatchVars, replyVars, mediaVars, worldVars, sendVars>>

\* getRoomMembers has settled; with two members getAccountData is called on
\* this.client, inside the inner try
RoomMembersResult(mem) ==
  /\ lookup.pc = "members"
  /\ lookup' = IF ~mem.ok \/ mem.count # 2
               THEN Returned(lookup, lookup.st, mem, "none")
               ELSE IF client = "null"
               THEN Returned(lookup, lookup.st, mem, "throw")
               ELSE [lookup EXCEPT !.pc = "account", !.mem = mem]
  /\ UNCHANGED <<client, listVars, dispatchVars, replyVars, mediaVars, worldVars, sendVars>>

\* getAccountData("m.direct") has settled
AccountDataResult(acct) ==
  /\ lookup.pc = "account"
  /\ lookup' = Returned(lookup, lookup.st, lookup.mem, acct)
  /\ UNCHANGED <<client, listVars, dispatchVars, replyVars, mediaVars, worldVars, sendVars>>

\* text events handleRoomMessage has asked the context of
ContextEvents(roomId) ==
  {[BlankEvent EXCEPT !.type = "m.room.message", !.roomId = roomId,
                      !.sender = s, !.msgtype = t, !.body = b] :
     s \in Senders \ {SelfId}, t \in {"m.text", "m.notice", "m.emote"},
     b \in Bodies}

\* handleRoomMessage goes on from the context to emitEvent (the calls in
\* between succeed)
EmitWithContext(e) ==
  /\ lookup.pc = "returned"
  /\ lookup' = [lookup EXCEPT !.pc = "emitted"]
  /\ emitted' = <<PlainPayload(e, lookup.room, NullMedia)>>
  /\ emitCount' = emitCount + 1
  /\ UNCHANGED <<client, listVars, ev, pending, task, replyVars, mediaVars, worldVars, sendVars>>

InitContext ==
  /\ client = "up"
  /\ allowedRoomIds = NoList
  /\ dynamicRoomIds = {}
  /\ shouldIgnoreBotMessages = TRUE
  /\ ev = BlankEvent
  /\ pending = <<>>
  /\ task = NoTask
  /\ emitted = <<>>
  /\ emitCount = 0
  /\ everJoined = {}
  /\ replies = <<>>
  /\ sends = <<>>
  /\ fetch = NoFetch
  /\ lookup = NoLookup
  /\ world = NoWorld
  /\ outbound = NoOutbound

NextContext ==
  \/ \E roomId \in Rooms : GetRoomInfoCalled(roomId)
  \/ \E st \in RoomStateResults : RoomStateResult(st)
  \/ \E mem \in RoomMembersResults : RoomMembersResult(mem)
  \/ \E acct \in AccountDataResults : AccountDataResult(acct)
  \/ \E e \in ContextEvents(lookup.roomId) : EmitWithContext(e)
  \/ Stop

SpecContext == InitContext /\ [][NextContext]_vars

----------------------------------------------------------------------------
(* onReady                                                                 *)

\* what getJoinedRooms may answer
JoinedRoomLists == {<<>>, <<<<"A">>>>, <<<<"B">>>>, <<<<"A">>, <<"B">>>>}

\* payload of emitEvent([ROOM_JOINED, WORLD_JOINED]) in onReady
WorldPayload(roomId, room) ==
  [kinds |-> {"ROOM_JOINED", "WORLD_JOINED"}, worldId |-> roomId,
   world |-> [id |-> roomId, name |-> OrElse(room.name, roomId),
              agentId |-> "agentId", serverId |-> "matrix"],
   room |-> room, source |-> "matrix"]

\* start().then calls onReady, which runs to the answer of getJoinedRooms:
\* without a client or rooms it returns, a rejection ends it in its catch
OnReady(joined) ==
  /\ world.pc = "idle"
  /\ world' = IF client = "null" \/ joined.res = "throw" \/ joined.rooms = <<>>
              THEN [world EXCEPT !.pc = "done"]
              ELSE [pc |-> "room", rooms |-> joined.rooms, k |-> 1]
  /\ UNCHANGED <<client, listVars, dispatchVars, replyVars, mediaVars,
                 contextVars, sendVars>>

\* the room of the loop
CurrentRoom == IF world.pc = "room" THEN world.rooms[world.k] ELSE Undef

\* one turn of the loop of onReady: getRoomInfo, which throws without a
\* client, then emitEvent; the catch inside the loop goes on to the next room
ReadyRoom(room, emit) ==
  /\ world.pc = "room"
  /\ emitted' = IF client = "null" \/ emit = "throw" THEN emitted
                ELSE Append(emitted, WorldPayload(CurrentRoom, room))
  /\ world' = IF world.k < Len(world.rooms)
              THEN [world EXCEPT !.k = @ + 1]
              ELSE [world EXCEPT !.pc = "done"]
  /\ UNCHANGED <<client, listVars, ev, pending, task, emitCount, replyVars,
                 mediaVars, contextVars, sendVars>>

InitReady ==
  /\ client = "up"
  /\ allowedRoomIds \in {ParseRoomIds(raw) : raw \in RoomIdSettings}
  /\ dynamicRoomIds = {}
  /\ shouldIgnoreBotMessages \in BOOLEAN
  /\ ev = BlankEvent
  /\ pending = <<>>
  /\ task = NoTask
  /\ emitted = <<>>
  /\ emitCount = 0
  /\ everJoined = {}
  /\ replies = <<>>
  /\ sends = <<>>
  /\ fetch = NoFetch
  /\ lookup = NoLookup
  /\ world = NoWorld
  /\ outbound = NoOutbound

NextReady ==
  \/ \E rooms \in JoinedRoomLists, res \in CallResults :
       OnReady([res |-> res, rooms |-> rooms])
  \/ \E room \in RoomInfos(CurrentRoom), emit \in CallResults :
       ReadyRoom(room, emit)
  \/ Stop

SpecReady == InitReady /\ [][NextReady]_vars

----------------------------------------------------------------------------
(* handleSendMessage                                                       *)

\* the room createRoom answers with
NewRoom == <<"D">>

\* target.channelId and target.entityId
SendTargets ==
  [channelId : {Undef} \cup Rooms, entityId : {Undef, <<"@", "u">>}]

\* content.text: nothing, one chunk, two chunks
SendTexts == {<<>>, <<"h", "i">>, <<"a", "b", "c", "d">>}

\* what getOrCreateDMRoom ends with: a joined direct room with the user, a
\* created room, or an error
DMRoomResults ==
  {[ok |-> TRUE, roomId |-> r] : r \in Rooms \cup {NewRoom}}
    \cup {[ok |-> FALSE, roomId |-> Undef]}

\* calls of client.sendMessage made by handleSendMessage carry reply 0
OutboundSend(roomId, idx, msgtype, body) ==
  [reply |-> 0, idx |-> idx, roomId |-> roomId,
   content |-> [msgtype |-> msgtype, body |-> body], state |-> "inflight"]

Threw(o, error) == [o EXCEPT !.pc = "threw", !.error = error]

\* a wrong handleSendMessage, sending whether or not there is a client
ContinueUnchecked(o, k) ==
  IF k <= Len(o.chunks)
  THEN [o |-> [o EXCEPT !.pc = "sending", !.k = k],
        calls |-> <<OutboundSend(o.roomId, k, "m.text", o.chunks[k])>>]
  ELSE IF o.image
  THEN [o |-> [o EXCEPT !.pc = "uploading"], calls |-> <<>>]
  ELSE [o |-> [o EXCEPT !.pc = "returned"], calls |-> <<>>]

\* handleSendMessage from chunk k of the text to its next await: the call of
\* this.client.sendMessage for the chunk, which throws without a client, or,
\* the chunks done, the upload of the image, whose failure is caught
Continue(o, k) ==
  IF k <= Len(o.chunks)
  THEN IF client = "null"
       THEN [o |-> Threw(o, "send"), calls |-> <<>>]
       ELSE [o |-> [o EXCEPT !.pc = "sending", !.k = k],
             calls |-> <<OutboundSend(o.roomId, k, "m.text", o.chunks[k])>>]
  ELSE IF o.image /\ client = "up"
  THEN [o |-> [o EXCEPT !.pc = "uploading"], calls |-> <<>>]
  ELSE [o |-> [o EXCEPT !.pc = "returned"], calls |-> <<>>]

\* the runtime calls handleSendMessage(runtime, target, content); it runs to
\* its first await
HandleSendMessage(target, text, image) ==
  /\ outbound.pc = "idle"
  /\ LET o == [outbound EXCEPT !.channelId = target.channelId,
                               !.entityId = target.entityId,
                               !.chunks = IF Truthy(text)
                                          THEN splitMessage(text, ChunkLimit)
                                          ELSE <<>>,
                               !.image = image]
     IN  IF client = "null"
         THEN outbound' = Threw(o, "notReady") /\ UNCHANGED sends
         ELSE IF Truthy(target.channelId) /\ RoomRestricted(target.channelId)
         THEN outbound' = [o EXCEPT !.pc = "returned"] /\ UNCHANGED sends
         ELSE IF Truthy(target.channelId)
         THEN LET c == Continue([o EXCEPT !.roomId = target.channelId], 1)
              IN  outbound' = c.o /\ sends' = sends \o c.calls
         ELSE IF Truthy(target.entityId)
         THEN outbound' = [o EXCEPT !.pc = "resolving"] /\ UNCHANGED sends
         ELSE outbound' = Threw(o, "noTarget") /\ UNCHANGED sends
  /\ UNCHANGED <<client, listVars, dispatchVars, replies, mediaVars,
                 contextVars, worldVars>>

\* getOrCreateDMRoom ends; without a client its calls throw
DMRoomReturns(res) ==
  /\ outbound.pc = "resolving"
  /\ IF ~res.ok \/ client = "null"
     THEN outbound' = Threw(outbound, "dmRoom") /\ UNCHANGED sends
     ELSE LET c == Continue([outbound EXCEPT !.roomId = res.roomId], 1)
          IN  outbound' = c.o /\ sends' = sends \o c.calls
  /\ UNCHANGED <<client, listVars, dispatchVars, replies, mediaVars,
                 contextVars, worldVars>>

\* position in sends of the call of handleSendMessage in flight
OutboundInFlight ==
  CHOOSE n \in 1..Len(sends) : sends[n].reply = 0 /\ sends[n].state = "inflight"

\* the sendMessage of a chunk settles
ChunkSendReturns(res) ==
  /\ outbound.pc = "sending"
  /\ LET settled == [sends EXCEPT ![OutboundInFlight].state =
                                    IF res = "ok" THEN "done" ELSE "failed"]
         c == Continue(outbound, outbound.k + 1)
     IN  IF res = "throw"
         THEN outbound' = Threw(outbound, "send") /\ sends' = settled
         ELSE outbound' = c.o /\ sends' = settled \o c.calls
  /\ UNCHANGED <<client, listVars, dispatchVars, replies, mediaVars,
                 contextVars, worldVars>>

\* uploadContent settles; the image message is sent; every failure of the
\* attachment is caught
UploadReturns(res) ==
  /\ outbound.pc = "uploading"
  /\ IF res = "throw" \/ client = "null"
     THEN outbound' = [outbound EXCEPT !.pc = "returned"] /\ UNCHANGED sends
     ELSE /\ outbound' = [outbound EXCEPT !.pc = "sendingImage"]
          /\ sends' = Append(sends, OutboundSend(outbound.roomId, 0, "m.image",
                                                 <<"image">>))
  /\ UNCHANGED <<client, listVars, dispatchVars, replies, mediaVars,
                 contextVars, worldVars>>

\* the sendMessage of the image settles
ImageSendReturns(res) ==
  /\ outbound.pc = "sendingImage"
  /\ outbound' = [outbound EXCEPT !.pc = "returned"]
  /\ sends' = [sends EXCEPT ![OutboundInFlight].state =
                              IF res = "ok" THEN "done" ELSE "failed"]
  /\ UNCHANGED <<client, listVars, dispatchVars, replies, mediaVars,
                 contextVars, worldVars>>

InitSend ==
  /\ client = "up"
  /\ allowedRoomIds \in {ParseRoomIds(raw) : raw \in RoomIdSettings}
  /\ dynamicRoomIds = {}
  /\ shouldIgnoreBotMessages = TRUE
  /\ ev = BlankEvent
  /\ pending = <<>>
  /\ task = NoTask
  /\ emitted = <<>>
  /\ emitCount = 0
  /\ everJoined = {}
  /\ replies = <<>>
  /\ sends = <<>>
  /\ fetch = NoFetch
  /\ lookup = NoLookup
  /\ world = NoWorld
  /\ outbound = NoOutbound

NextSend ==
  \/ \E target \in SendTargets, text \in SendTexts, image \in BOOLEAN :
       HandleSendMessage(target, text, image)
  \/ \E res \in DMRoomResults : DMRoomReturns(res)
  \/ \E res \in CallResults : ChunkSendReturns(res)
  \/ \E res \in CallResults : UploadReturns(res)
  \/ \E res \in CallResults : ImageSendReturns(res)
  \/ \E r \in Rooms, res \in CallResults : JoinRoom(r, res)
  \/ \E r \in Rooms, res \in CallResults : LeaveRoom(r, res)
  \/ Stop

SpecSend == InitSend /\ [][NextSend]_vars

----------------------------------------------------------------------------
(* stop() against a reply callback and handleSendMessage                   *)

\* isReady()
isReady == client # "null"

\* the runtime holds callbacks of one event; no allow-list is configured
InitStop ==
  /\ client = "up"
  /\ allowedRoomIds = NoList
  /\ dynamicRoomIds = {}
  /\ shouldIgnoreBotMessages = TRUE
  /\ ev = BlankEvent
  /\ pending = <<>>
  /\ task = NoTask
  /\ emitted = <<>>
  /\ emitCount = 0
  /\ everJoined = {}
  /\ replies \in {[i \in 1..NReplies |-> IdleReply(CallbackOf(e))] :
                    e \in RepliedEvents}
  /\ sends = <<>>
  /\ fetch = NoFetch
  /\ lookup = NoLookup
  /\ world = NoWorld
  /\ outbound = NoOutbound

NextStop ==
  \/ \E text \in ReplyTexts : InvokeCallback(1, text)
  \/ \E res \in CallResults : SendComplete(1, res)
  \/ \E target \in SendTargets, text \in SendTexts, image \in BOOLEAN :
       HandleSendMessage(target, text, image)
  \/ \E res \in DMRoomResults : DMRoomReturns(res)
  \/ \E res \in CallResults : ChunkSendReturns(res)
  \/ \E res \in CallResults : UploadReturns(res)
  \/ \E res \in CallResults : ImageSendReturns(res)
  \/ Stop

SpecStop == InitStop /\ [][NextStop]_vars




----------------------------------------------------------------------------
(* Properties of the dispatcher                                            *)

MessageHandlers == {"handleRoomMessage", "handleEncryptedMessage"}

\* failures that end a callback in a catch block
Unrecovered == {"identity", "client", "ensureConnection", "emit"}

\* failures a handler recovers from on its way to emitEvent
Recoverable == {"context", "profile", "media"}

\* C1: an event whose sender is the adapter's own user id is never emitted to
\* the runtime, whatever its kind (message, encrypted, reaction, membership).
C1_SelfEchoSuppressed == ev.sender = SelfId => emitted = <<>>

\* the filters of a message handler other than the allow-list
OtherFiltersPass ==
  /\ ev.sender # SelfId
  /\ task.handler = "handleRoomMessage" =>
       /\ ~(shouldIgnoreBotMessages /\ includes(ev.sender, <<"b", "o", "t">>))
       /\ ev.msgtype \in supportedTypes

\* the configured list is {A}
StaticA == allowedRoomIds.defined /\ Range(allowedRoomIds.ids) = {<<"A">>}

\* a message handler evaluates its filters in this step
FiltersStep == task.pc = "begin" /\ task'.pc # "begin"

C3_RestrictedNeverEmitted ==
  [][emitCount' > emitCount => ~RoomRestricted(ev.roomId)]_vars

\* C4 (as amended), for a callback that has finished: a failure of identity
\* lookup, client, ensureConnection or emit ends it in a catch block with
\* nothing emitted, a failure of room context, profile lookup or media download
\* is recovered and the event is forwarded, and the callback returns
C4_Outcome ==
  task.pc = "done" =>
    /\ task.outcome = "errored" <=> task.raised \cap Unrecovered # {}
    /\ task.outcome = "errored" => emitted = <<>>
    /\ task.outcome = "forwarded" =>
         /\ task.raised \subseteq Recoverable
         /\ Len(emitted) = 1
    /\ task.outcome \in {"errored", "forwarded", "filtered", "ignored"}
    /\ ENABLED Return

\* the return of a failed callback leaves the client, the allow-list and the
\* listeners still to be called for the event as they were
C4_Continues ==
  (task.outcome = "errored" /\ task' = NoTask) =>
    /\ pending' = pending
    /\ UNCHANGED <<client, listVars>>

\* C4 (as amended): every exception raised while handling an event is caught
\* and the handler returns; the event is dropped when the failure is one of
\* identity lookup, client, ensureConnection or emit, and is still forwarded
\* when it is one of room context, profile lookup or media download; listeners
\* and later events are processed as if the failure had not happened.
C4_ExceptionsContained == []C4_Outcome /\ [][C4_Continues]_vars

\* C4 witness: with no allow-list, the second listener of a message event has
\* forwarded it, recovering from a failed profile lookup, and it is the only
\* emission for the event: the first listener's callback, which ran the same
\* filters on the same event, ended in a catch block before it.
C4_ForwardedAfterFailure ==
  /\ ~allowedRoomIds.defined
  /\ task.topic = "room.event" /\ task.handler = "handleRoomMessage"
  /\ task.pc = "done" /\ task.outcome = "forwarded"
  /\ "profile" \in task.raised
  /\ emitCount = 1

\* C4 as stated: a callback that met any failure ends with the event dropped.
C4_AnyFailureDrops ==
  (task.pc = "done" /\ task.raised # {}) =>
    (task.outcome = "errored" /\ emitted = <<>>)

\* C5: one room message event produces at most one emission to the runtime.
C5_AtMostOneEmission == ev.type = "m.room.message" => emitCount <= 1

\* C6: a message or encrypted callback that has finished for an event of a
\* supported kind that passed the filters, and that met no failure other than
\* of profile lookup, room context or media download, has forwarded the event
\* with a non-empty text.
C6_ForwardedWithText ==
  (/\ task.pc = "done" /\ task.handler \in MessageHandlers
   /\ ev.msgtype \in supportedTypes
   /\ task.outcome # "filtered"
   /\ task.raised \cap Unrecovered = {}) =>
    /\ task.outcome = "forwarded"
    /\ \A i \in 1..Len(emitted) : Truthy(emitted[i].text)

\* C7: no forwarded message has a kind outside the supported ones, be it a
\* plaintext event or an encrypted event decrypted in place.
C7_UnsupportedNeverForwarded ==
  \A i \in 1..Len(emitted) :
    LET e == emitted[i].originalEvent
    IN  (/\ emitted[i].kinds = "MESSAGE_RECEIVED"
         /\ (e.type = "m.room.message" \/ IsDecrypted(e))) =>
          e.msgtype \in supportedTypes

----------------------------------------------------------------------------
(* Properties of the reply callbacks                                       *)

\* content["m.relates_to"]["m.in_reply_to"].event_id of a sendMessage content
RelatesTo(content) ==
  IF "m.relates_to" \in DOMAIN content THEN content["m.relates_to"] ELSE Undef

\* the sendMessage calls of reply i, in call order
SendsOf(i) == SelectSeq(sends, LAMBDA s : s.reply = i)

\* C8: every chunk sent for a multi-chunk reply to a message or encrypted
\* event relates to the original event's id, and chunks are sent in increasing
\* chunk order.
C8_ChunksThreaded ==
  \A i \in 1..NReplies :
    (replies[i].cb.kind \in {"message", "encrypted"} /\ Len(replies[i].chunks) > 1) =>
      \A j \in 1..Len(SendsOf(i)) :
        /\ RelatesTo(SendsOf(i)[j].content) = replies[i].cb.event_id
        /\ SendsOf(i)[j].idx = j

\* C9: a reply to a message event is sent with the body
\* "> <originalSenderId> originalBody\n\nreplyText" and relates to the original
\* event's id.
C9_QuotedReply ==
  \A i \in 1..NReplies :
    (replies[i].cb.kind = "message" /\ Len(replies[i].chunks) = 1) =>
      \A j \in 1..Len(SendsOf(i)) :
        /\ SendsOf(i)[j].content.body =
             <<"> <">> \o replies[i].cb.sender \o <<"> ">> \o replies[i].cb.body
               \o <<"\n", "\n">> \o replies[i].chunks[1]
        /\ RelatesTo(SendsOf(i)[j].content) = replies[i].cb.event_id

\* C10: within one reply the sends are sequential and in chunk order: the j-th
\* call sends chunk j, and every call but the latest has completed, whatever
\* the other replies are doing.
C10_SendsSequential ==
  \A i \in 1..NReplies :
    \A j \in 1..Len(SendsOf(i)) :
      /\ SendsOf(i)[j].idx = j
      /\ SendsOf(i)[j].content.body = replies[i].chunks[j]
      /\ j < Len(SendsOf(i)) => SendsOf(i)[j].state = "done"

\* C10 witness: two replies are each awaiting the send of their second chunk
C10_TwoRepliesInFlight ==
  \A i \in 1..NReplies :
    /\ Len(SendsOf(i)) = 2
    /\ SendsOf(i)[1].state = "done"
    /\ SendsOf(i)[2].state = "inflight"


\* C11: every body handed to sendMessage by a reply callback, of a message,
\* an encrypted event or a reaction, is no longer than the chunk limit.
C11_BodiesWithinLimit ==
  \A n \in 1..Len(sends) : Len(sends[n].content.body) <= ChunkLimit

\* the quoted fallback "> <sender> body\n\n", character by character
QuoteOf(cb) ==
  <<">", " ", "<">> \o cb.sender \o <<">", " ">> \o cb.body \o <<"\n", "\n">>

\* C12: a reply to a message event that was sent completely consists of as
\* many sends as the full reply body, quote and reply text, has chunks.
C12_SendsEqualFullBodyChunks ==
  \A i \in 1..NReplies :
    (/\ replies[i].cb.kind = "message"
     /\ replies[i].pc = "returned" /\ ~replies[i].caught
     /\ replies[i].text # <<>>
     /\ client = "up") =>
      Len(SendsOf(i)) =
        Len(splitMessage(QuoteOf(replies[i].cb) \o replies[i].text, ChunkLimit))

\* content.formatted_body of a sendMessage content
FormattedBody(content) ==
  IF "formatted_body" \in DOMAIN content THEN content["formatted_body"]
  ELSE Undef

\* C13: in a reply to a message event whose sender's display name is known,
\* the first chunk carries format and formatted_body and no later chunk does.
C13_FormattedBodyOnFirstChunk ==
  \A i \in 1..NReplies :
    replies[i].cb.kind = "message" =>
      \A j \in 1..Len(SendsOf(i)) :
        (SendsOf(i)[j].idx = 1) <=>
          (/\ FormattedBody(SendsOf(i)[j].content) # Undef
           /\ "format" \in DOMAIN SendsOf(i)[j].content)

HtmlSpecial == {"<", ">", "&", "\""}

Escaped(ch) ==
  CASE ch = "<" -> "&lt;" [] ch = ">" -> "&gt;" [] ch = "&" -> "&amp;"
    [] OTHER -> "&quot;"

\* C14: when the quoted body or the reply text of a reply to a message event
\* holds one of < > & ", the formatted body of the reply holds its escaped
\* form and no raw occurrence of it.
C14_FormattedBodyEscaped ==
  \A i \in 1..NReplies :
    replies[i].cb.kind = "message" =>
      \A j \in 1..Len(SendsOf(i)) :
        \A ch \in HtmlSpecial \cap Range(replies[i].cb.body \o replies[i].text) :
          SendsOf(i)[j].idx = 1 =>
            /\ Escaped(ch) \in Range(FormattedBody(SendsOf(i)[j].content))
            /\ ch \notin Range(FormattedBody(SendsOf(i)[j].content))

----------------------------------------------------------------------------
(* Properties of the image download                                        *)

\* the payload emitted for the image event of the download
FetchPayload == emitted[1]

\* the bytes of the accepted data events, in arrival order
RECURSIVE ReceivedBytes(_)
ReceivedBytes(chunks) ==
  IF chunks = <<>> THEN <<>>
  ELSE ReceivedBytes(SubSeq(chunks, 1, Len(chunks) - 1)) \o chunks[Len(chunks)]

Base64Index(c) == (CHOOSE i \in 1..64 : Base64Alphabet[i] = c) - 1

\* decoding of padded base64
RECURSIVE fromBase64(_)
fromBase64(s) ==
  IF Len(s) < 4 THEN <<>>
  ELSE LET a == Base64Index(s[1])
           b == Base64Index(s[2])
       IN IF s[3] = "=" THEN <<a * 4 + b \div 16>>
          ELSE LET c == Base64Index(s[3])
               IN IF s[4] = "="
                  THEN <<a * 4 + b \div 16, (b % 16) * 16 + c \div 4>>
                  ELSE <<a * 4 + b \div 16, (b % 16) * 16 + c \div 4,
                         (c % 4) * 64 + Base64Index(s[4])>>
                       \o fromBase64(SubSeq(s, 5, Len(s)))

DataUrlPrefix(mimeType) == <<"data:">> \o mimeType \o <<";base64,">>

\* the download of the image event succeeded: downloadBuffer resolved with
\* at least one byte
DownloadSucceeded ==
  fetch.pc = "returned" /\ fetch.outcome = "resolved"
  /\ ReceivedBytes(fetch.chunks) # <<>>

\* the first attachment carries, after its data: prefix, the base64 of the
\* received bytes in arrival order
PayloadRoundTrips ==
  LET url == FetchPayload.attachments.list[1].url
      prefix == DataUrlPrefix(fetch.e.mimetype)
  IN /\ startsWith(url, prefix)
     /\ fromBase64(SubSeq(url, Len(prefix) + 1, Len(url)))
          = ReceivedBytes(fetch.chunks)

FailureClass ==
  CASE fetch.outcome = "notStarted" -> fetch.reason
    [] fetch.outcome = "rejected" -> fetch.reason
    [] fetch.outcome = "resolved" /\ ReceivedBytes(fetch.chunks) = <<>> -> "empty"
    [] OTHER -> "none"

FailureClasses ==
  {"locator", "status", "timeout", "tooLarge", "empty", "transport"}

ImageMarker == "(camera) **IMAGE ATTACHED**: "
FailureMarker ==
  "\n\n(warn) Image could not be processed - content may not be accessible."

----------------------------------------------------------------------------
(* Properties of the metadata of forwarded messages                        *)

\* the MESSAGE_RECEIVED payloads of the callback in progress
MessagePayloads ==
  {emitted[n] : n \in {k \in 1..Len(emitted) :
                         emitted[k].kinds = "MESSAGE_RECEIVED"}}

FromPlaintext(p) == p.callback.kind = "message"

\* C17: on every emitted message isDecrypted = true implies isEncrypted =
\* true; a message produced by the plaintext handler carries neither key
\* (both are undefined, so neither is true), and a message produced by the
\* encrypted handler carries isEncrypted = true.
C17_FlagsConsistent ==
  \A p \in MessagePayloads :
    /\ p.isDecrypted = "true" => p.isEncrypted = "true"
    /\ FromPlaintext(p) =>
         p.isEncrypted = "undefined" /\ p.isDecrypted = "undefined"
    /\ ~FromPlaintext(p) =>
         p.isEncrypted = "true" /\ p.isDecrypted \in {"true", "false"}

\* a message of the plaintext handler has been emitted
C17_PlaintextEmitted ==
  \E p \in MessagePayloads :
    FromPlaintext(p) /\ p.originalEvent.type = "m.room.message"

\* C17 as stated: a message produced from a plaintext event carries
\* isEncrypted = false and isDecrypted = false.
C17_PlaintextFlagsFalse ==
  \A p \in MessagePayloads :
    /\ p.isDecrypted = "true" => p.isEncrypted = "true"
    /\ FromPlaintext(p) => p.isEncrypted = "false" /\ p.isDecrypted = "false"

\* the content of an encrypted event lacks msgtype or body
LacksContent(e) == e.msgtype = "" \/ e.body = <<>>

Placeholder == <<"[Encrypted message - content not available]">>

\* C18: a callback of the encrypted handler that has finished for an event
\* lacking msgtype or body, that was not stopped by a filter and met no
\* unrecovered failure, has forwarded the event: one message whose text is
\* exactly the placeholder, with isEncrypted = true, isDecrypted = false,
\* attachments omitted, no download attempted, and the reply callback of the
\* event's room.
C18_UndecryptedForwarded ==
  (/\ task.handler = "handleEncryptedMessage" /\ task.pc = "done"
   /\ LacksContent(ev)) =>
    /\ (task.outcome # "filtered" /\ task.raised \cap Unrecovered = {}) =>
         task.outcome = "forwarded"
    /\ task.outcome = "forwarded" =>
         /\ Len(emitted) = 1
         /\ emitted[1].kinds = "MESSAGE_RECEIVED"
         /\ emitted[1].originalEvent = ev
         /\ emitted[1].text = Placeholder
         /\ emitted[1].isEncrypted = "true"
         /\ emitted[1].isDecrypted = "false"
         /\ emitted[1].messageType = "m.room.encrypted"
         /\ emitted[1].attachments.omitted
         /\ "media" \notin task.raised
         /\ emitted[1].callback = Callback("encrypted", ev)
         /\ emitted[1].callback.roomId = ev.roomId

\* an encrypted event with the msgtype, url and mimetype of an image but no
\* body has been forwarded
C18_UndecryptedImageForwarded ==
  /\ task.handler = "handleEncryptedMessage" /\ task.pc = "done"
  /\ task.outcome = "forwarded"
  /\ ev.msgtype = "m.image" /\ Truthy(ev.url) /\ Truthy(ev.mimetype)
  /\ ev.body = <<>>
  /\ Len(emitted) = 1

----------------------------------------------------------------------------
(* Properties of the limits of downloadBuffer                              *)

\* C19: no download yields an attachment later than the timeout after it
\* started: a download that resolves does so within TimeoutTicks of its
\* start, connect and transfer counted together.
C19_NoLateAttachment ==
  (fetch.outcome = "resolved" /\ ReceivedBytes(fetch.chunks) # <<>>) =>
    fetch.settledAt <= TimeoutTicks

\* C20: the download fails as soon as more than maxSize bytes have been
\* received and not before (exactly maxSize bytes are accepted), no later
\* event turns it into a success, and the transfer is aborted: no data event
\* is taken after the cap was exceeded.
C20_CapAborts ==
  [][/\ (fetch.totalSize <= maxSize /\ fetch'.totalSize > maxSize) =>
          fetch'.outcome = "rejected"
     /\ fetch.totalSize <= maxSize => fetch.reason # "tooLarge"
     /\ fetch.totalSize > maxSize => fetch'.outcome = "rejected"
     /\ fetch.totalSize > maxSize => fetch'.totalSize = fetch.totalSize
    ]_vars

\* the locator of the download resolved to an HTTP(S) URL
ResolvedToHttp == Truthy(fetch.http) /\ Head(fetch.http) \in HttpProtocols

\* C21: a download whose locator did not resolve to an HTTP(S) URL has
\* failed without a request: no exchange was ever opened, no byte received,
\* and the message emitted for the event has no attachment.
C21_UnresolvedNoRequest ==
  (fetch.pc # "idle" /\ ~ResolvedToHttp) =>
    /\ fetch.stream = "none"
    /\ fetch.totalSize = 0 /\ fetch.chunks = <<>>
    /\ fetch.outcome \in {"notStarted", "rejected"}
    /\ fetch.reason = "locator"
    /\ fetch.pc = "returned" => FetchPayload.attachments.omitted

\* mxcToHttp answered nothing and downloadMediaContent has returned
C21_UnresolvedReturned ==
  /\ fetch.pc = "returned"
  /\ fetch.http = Undef
  /\ fetch.stream = "none"
  /\ FetchPayload.attachments.omitted

----------------------------------------------------------------------------
(* Properties of the image branch without a declared MIME type             *)

\* C22: a forwarded image event that has a content locator but no declared
\* MIME type had its download attempted with a resolved type: its message
\* carries one attachment, or the download failed.
C22_UndeclaredTypeDownloaded ==
  (/\ task.handler = "handleRoomMessage" /\ task.pc = "done"
   /\ task.outcome = "forwarded"
   /\ ev.msgtype = "m.image" /\ Truthy(ev.url) /\ ~Truthy(ev.mimetype)) =>
    \/ Len(emitted[1].attachments.list) = 1
    \/ "media" \in task.raised

----------------------------------------------------------------------------
(* Properties of the room allow-list                                       *)

StaticRooms == IF allowedRoomIds.defined THEN Range(allowedRoomIds.ids) ELSE {}

\* C23: the configured list never changes and each of its rooms is allowed
\* in every state reached by join and leave actions; removeAllowedRoom on a
\* configured room returns false and leaves the dynamic set as it is.
C23_StaticPermanent ==
  /\ [](\A r \in StaticRooms :
          /\ isRoomAllowed(r)
          /\ ~removeAllowedRoomReturns(r)
          /\ removeAllowedRoom(r) = dynamicRoomIds)
  /\ [][allowedRoomIds' = allowedRoomIds]_vars

\* the configured room A has also been joined, and B joined and left again
C23_StaticAlsoJoined ==
  /\ StaticA
  /\ <<"A">> \in dynamicRoomIds
  /\ <<"B">> \in everJoined /\ <<"B">> \notin dynamicRoomIds

\* C24: isRoomAllowed(r) is true for every room when no list is configured,
\* and otherwise exactly when r is in the configured list or in the dynamic
\* set, which is then the membership in getAllowedRooms().
C24_AllowedIffListed ==
  \A r \in Rooms :
    /\ ~allowedRoomIds.defined => isRoomAllowed(r)
    /\ allowedRoomIds.defined =>
         /\ isRoomAllowed(r) <=> (r \in StaticRooms \/ r \in dynamicRoomIds)
         /\ isRoomAllowed(r) <=> r \in getAllowedRooms
         /\ RoomRestricted(r) <=> ~isRoomAllowed(r)

\* with the list {A}, B has been joined and A has not: both are allowed, one
\* by the list and one by the dynamic set
C24_OneStaticOneDynamic ==
  /\ StaticA
  /\ dynamicRoomIds = {<<"B">>}
  /\ isRoomAllowed(<<"A">>) /\ isRoomAllowed(<<"B">>)

\* a step of a listener callback or of the SDK's dispatch
HandlerStep == dispatchVars' # dispatchVars

\* C25: the configured list never changes; the dynamic set changes only in a
\* step of a join action, which adds one room, or of a leave action, which
\* removes one room, never in a step of an event handler or of stop(); a join
\* or leave whose protocol call failed leaves the dynamic set as it was.
C25_OnlyJoinLeaveOnSuccess ==
  [][/\ allowedRoomIds' = allowedRoomIds
     /\ dynamicRoomIds' # dynamicRoomIds =>
          /\ ~HandlerStep
          /\ client' = client /\ client = "up"
          /\ \E r \in Rooms :
               \/ JoinRoom(r, "ok") /\ dynamicRoomIds' = dynamicRoomIds \cup {r}
               \/ LeaveRoom(r, "ok") /\ dynamicRoomIds' = dynamicRoomIds \ {r}
     /\ \A r \in Rooms :
          (JoinRoom(r, "throw") \/ LeaveRoom(r, "throw")) =>
            dynamicRoomIds' = dynamicRoomIds
    ]_vars

\* a join has added B while a listener callback was in progress
C25_JoinedDuringCallback ==
  /\ <<"B">> \in dynamicRoomIds
  /\ task # NoTask /\ task.pc = "ctx"

----------------------------------------------------------------------------
(* Properties of the bot filter                                            *)

BotSender == includes(ev.sender, <<"b", "o", "t">>)

\* C26: with bot-message suppression configured, no message is forwarded for
\* an event whose sender id contains "bot", be the event plaintext or
\* encrypted.
C26_BotMessagesSuppressed ==
  (shouldIgnoreBotMessages /\ BotSender) => MessagePayloads = {}

----------------------------------------------------------------------------
(* Properties of the reaction handler                                      *)

\* C27: every forwarded reaction has the relation type m.annotation, a target
\* event_id and a key, and the text "*Reacted with {key}*".
C27_ReactionForwardedOnlyComplete ==
  \A n \in 1..Len(emitted) :
    emitted[n].kinds = "REACTION_RECEIVED" =>
      LET e == emitted[n].originalEvent
      IN  /\ e.rel_type = "m.annotation"
          /\ e.rel_event_id # Undef
          /\ e.key # Undef
          /\ emitted[n].text = <<"*Reacted with ">> \o e.key \o <<"*">>

----------------------------------------------------------------------------
(* Properties of the room context                                          *)

ContextReturned == lookup.pc \in {"returned", "emitted"}

\* C28: a returned context is not direct when the member count is not 2;
\* with 2 members it is direct exactly when the registry lists the room if
\* the registry was read, and direct if reading the registry failed; the
\* message emitted with it has channel type DM exactly when it is direct.
C28_DirectClassification ==
  ContextReturned =>
    /\ lookup.room.memberCount # 2 => ~lookup.room.isDirect
    /\ (lookup.room.memberCount = 2 /\ lookup.acct # "throw") =>
         (lookup.room.isDirect <=> lookup.acct = "listed")
    /\ (lookup.room.memberCount = 2 /\ lookup.acct = "throw") =>
         lookup.room.isDirect
    /\ lookup.room.memberCount =
         (IF lookup.st.ok /\ lookup.mem.ok THEN lookup.mem.count ELSE 0)
    /\ lookup.pc = "emitted" =>
         (emitted[1].channelType = "DM" <=> lookup.room.isDirect)

\* a message has been emitted as GROUP for a room of two members that the
\* registry does not list
C28_TwoMembersUnlisted ==
  /\ lookup.pc = "emitted"
  /\ lookup.room.memberCount = 2
  /\ lookup.acct = "unlisted"
  /\ emitted[1].channelType = "GROUP"

\* C29: getRoomInfo never raises, whichever query failed and with or without
\* a client: it returns a context, the minimal one when the state or the
\* member query failed.
C29_ContextNeverRaises ==
  /\ lookup.pc # "raised"
  /\ (ContextReturned /\ (~lookup.st.ok \/ ~lookup.mem.ok)) =>
       lookup.room = MinimalRoom(lookup.roomId)

----------------------------------------------------------------------------
(* Properties of a failed send in a reply callback                         *)

\* C30: no reply callback, of a message, an encrypted message or a reaction,
\* ends by raising to the runtime, and no chunk of a reply is sent after a
\* send of that reply has failed.
C30_SendFailureContained ==
  /\ \A i \in 1..NReplies : ~replies[i].rejected
  /\ \A n \in 1..Len(sends) :
       sends[n].state = "failed" =>
         \A m \in (n + 1)..Len(sends) : sends[m].reply # sends[n].reply

----------------------------------------------------------------------------
(* Properties of onReady                                                   *)

\* C31: every notification onReady emits has WORLD_CONNECTED among its event
\* kinds and carries a world descriptor (id, name = room name or room id,
\* agent id, source tag "matrix"), and no room gets more than one.
C31_WorldConnectedPerRoom ==
  /\ \A n \in 1..Len(emitted) :
       /\ "WORLD_CONNECTED" \in emitted[n].kinds
       /\ emitted[n].world.id = emitted[n].worldId
       /\ emitted[n].world.name
            = OrElse(emitted[n].room.name, emitted[n].worldId)
       /\ emitted[n].world.serverId = "matrix"
  /\ \A n, m \in 1..Len(emitted) :
       emitted[n].worldId = emitted[m].worldId => n = m

----------------------------------------------------------------------------
(* Properties of the filters' side effects                                 *)

FilterReasons == {"self", "room", "bot", "unsupported"}

\* C32: a message callback that ended at a filter (own sender, room not
\* allowed, bot sender, unsupported kind) has made no call but the identity
\* lookup (no room-context query, profile lookup, ensureConnection, download
\* or emit) and has emitted nothing; the step that filters emits nothing and
\* sends nothing.
C32_FilteredNoSideEffect ==
  /\ []((task.handler \in MessageHandlers /\ task.outcome = "filtered") =>
          /\ task.reason \in FilterReasons
          /\ task.calls \subseteq {"getUserId"}
          /\ emitted = <<>>)
  /\ [][(task'.outcome = "filtered" /\ task.outcome # "filtered") =>
          UNCHANGED <<emitted, emitCount, sends, fetch, lookup>>]_vars

\* a message of a bot sender has been dropped by the bot filter after the
\* identity lookup
C32_BotFiltered ==
  /\ task.handler = "handleRoomMessage"
  /\ task.outcome = "filtered" /\ task.reason = "bot"
  /\ task.calls = {"getUserId"}

----------------------------------------------------------------------------
(* Properties relating the plaintext and the encrypted path                *)

\* a content of a supported kind with a non-empty body
SupportedContent(e) == e.msgtype \in supportedTypes /\ Truthy(e.body)

\* the download result each path works with, for one behaviour of the network
PlainMedia(e, net) ==
  IF AttemptsDownload(e)
  THEN downloadMediaContent(e.url, e.mimetype, OrElse(e.body, <<"image">>), net)
  ELSE NullMedia
EncryptedMedia(e, net) ==
  IF EncryptedAttemptsDownload(e)
  THEN downloadMediaContent(e.url, e.mimetype,
                            OrElse(e.body, <<"encrypted_image">>), net)
  ELSE NullMedia

\* C33: on a content of a supported kind with a non-empty body that passed
\* the filters, handleRoomMessage and handleEncryptedMessage agree: both
\* attempt a download for the same contents, build the same isMedia, message
\* kind and attachments from the same answers of the room and the network,
\* and a callback of either that was past its filters ends forwarded or
\* errored, its payload and its download call being those functions of the
\* content.
C33_PathsAgree ==
  (ev.type \in {"m.room.message", "m.room.encrypted"} /\ SupportedContent(ev)) =>
    /\ AttemptsDownload(ev) = EncryptedAttemptsDownload(ev)
    /\ \A room \in RoomInfos(ev.roomId), net \in DownloadResults :
         LET p == PlainPayload(ev, room, PlainMedia(ev, net))
             q == EncryptedPayload(ev, room, EncryptedMedia(ev, net))
         IN  /\ p.isMedia = q.isMedia
             /\ p.messageType = q.messageType
             /\ p.attachments = q.attachments
             /\ p.channelType = q.channelType
    /\ (task.handler \in MessageHandlers /\ "getRoomInfo" \in task.calls
          /\ task.pc = "done") =>
         /\ task.outcome \in {"forwarded", "errored"}
         /\ task.outcome = "errored" =>
              task.raised \subseteq {"client", "ensureConnection", "emit"}
         /\ ("downloadMediaContent" \in task.calls) =>  AttemptsDownload(ev)
         /\ task.outcome = "forwarded" =>
              LET p == emitted[Len(emitted)]
              IN  /\ p.isMedia = (ev.msgtype \in mediaTypes)
                  /\ p.messageType = ev.msgtype
                  /\ ("downloadMediaContent" \in task.calls) = AttemptsDownload(ev)
                  /\ ~p.attachments.omitted => AttemptsDownload(ev)

\* the encrypted path has forwarded a decrypted image with its attachment
C33_DecryptedImageAttached ==
  /\ task.handler = "handleEncryptedMessage" /\ task.outcome = "forwarded"
  /\ SupportedContent(ev) /\ ev.msgtype = "m.image"
  /\ emitted # <<>>
  /\ ~emitted[Len(emitted)].attachments.omitted
  /\ emitted[Len(emitted)].isDecrypted = "true"

----------------------------------------------------------------------------
(* Properties of the settlement of a download                              *)

Pending == fetch.pc = "awaiting" /\ fetch.outcome = "pending"
RejectedFor(why) == fetch'.outcome = "rejected" /\ fetch'.reason = why

\* C34: the first of timer expiry, request or response error, status other
\* than 200, size cap exceeded and end of body settles the download with its
\* own outcome; once settled, no later event changes outcome, reason or
\* buffer, and a rejected download is emitted without attachment.
C34_FirstEventSettles ==
  [][/\ fetch.outcome # "pending" =>
          /\ fetch'.outcome = fetch.outcome
          /\ fetch'.reason = fetch.reason
          /\ fetch'.buffer = fetch.buffer
     /\ (Pending /\ TimeoutFires) => RejectedFor("timeout")
     /\ (Pending /\ RequestTimeout) => RejectedFor("timeout")
     /\ (Pending /\ OnError) => RejectedFor("transport")
     /\ (Pending /\ \E statusCode \in HttpStatuses \ {200} :
                      ResponseCallback(statusCode)) => RejectedFor("status")
     /\ (Pending /\ fetch'.totalSize > maxSize
           /\ \E chunk \in DataChunks : OnData(chunk)) => RejectedFor("tooLarge")
     /\ (Pending /\ OnEnd) =>
          /\ fetch'.outcome = "resolved"
          /\ fetch'.buffer = Concat(fetch.chunks)
     /\ (fetch.outcome = "rejected" /\ fetch'.pc = "returned"
           /\ fetch.pc = "awaiting") =>
          emitted'[1].attachments.omitted
    ]_vars

\* the timer rejected the download, the body arrived and ended afterwards,
\* and the message went out without attachment
C34_EndAfterTimeout ==
  /\ fetch.outcome = "rejected" /\ fetch.reason = "timeout"
  /\ fetch.stream = "closed" /\ fetch.chunks # <<>>
  /\ fetch.pc = "returned"
  /\ emitted # <<>> /\ emitted[1].attachments.omitted

----------------------------------------------------------------------------
(* Properties of splitMessage                                              *)

\* largest maxLength the chunks are computed for
MaxLimit == 4

\* the chunks one after the other
RECURSIVE Flatten(_)
Flatten(chunks) ==
  IF chunks = <<>> THEN <<>> ELSE Head(chunks) \o Flatten(Tail(chunks))

\* a text without its line breaks
Unbroken(text) == SelectSeq(text, LAMBDA c : c # "\n")

\* splitMessage(text, maxLength) has no empty chunk and keeps every character
\* but line breaks, in order
Lossless(text, maxLength) ==
  LET chunks == splitMessage(text, maxLength)
  IN  /\ \A j \in 1..Len(chunks) : chunks[j] # <<>>
      /\ Unbroken(Flatten(chunks)) = Unbroken(text)

\* C35: the chunks a message callback computed for its text are those of
\* splitMessage, and for that text and every limit from 1 to MaxLimit
\* splitMessage returns no empty chunk and chunks that, concatenated in order
\* with the line breaks removed, equal the text with its line breaks removed.
C35_SplitLosesNoContent ==
  \A i \in 1..NReplies :
    (replies[i].pc # "idle" /\ replies[i].cb.kind # "reaction") =>
      /\ Truthy(replies[i].text) =>
           replies[i].chunks = splitMessage(replies[i].text, ChunkLimit)
      /\ \A maxLength \in 1..MaxLimit : Lossless(replies[i].text, maxLength)

\* a callback has split a text with a line break into several chunks, a line
\* break being dropped between them
C35_SplitAtLineBreak ==
  \E i \in 1..NReplies :
    /\ replies[i].pc # "idle" /\ replies[i].cb.kind # "reaction"
    /\ Len(replies[i].text) = MaxTextLen
    /\ Len(replies[i].chunks) >= 2
    /\ \E j \in 1..MaxTextLen : replies[i].text[j] = "\n"
    /\ Len(Flatten(replies[i].chunks)) < Len(replies[i].text)

\* C36: a message callback that has returned from a non-empty text without a
\* failed send has sent at least one message to the room of its event.
C36_NonEmptyTextSent ==
  \A i \in 1..NReplies :
    (/\ replies[i].pc = "returned" /\ replies[i].cb.kind \in {"message", "encrypted"}
     /\ Truthy(replies[i].text) /\ ~replies[i].caught /\ client = "up") =>
      \E n \in 1..Len(sends) :
        /\ sends[n].reply = i /\ sends[n].roomId = replies[i].cb.roomId
        /\ sends[n].state = "done"

----------------------------------------------------------------------------
(* Properties of handleSendMessage                                         *)

\* C37: with an allow-list configured, every call of sendMessage that
\* handleSendMessage makes is for a room that isRoomAllowed accepts at the
\* time of the call.
C37_SendsOnlyToAllowedRooms ==
  [][(allowedRoomIds.defined /\ Len(sends') > Len(sends)
        /\ sends'[Len(sends')].reply = 0) =>
       isRoomAllowed(sends'[Len(sends')].roomId)]_vars

----------------------------------------------------------------------------
(* Properties of the room-ids setting                                      *)

\* a setting without a non-blank entry: unset, or spaces and separators only
BlankSetting(raw) ==
  raw = Undef \/ \A i \in 1..Len(raw) : raw[i] \in {" ", ","}

\* C38: a room-ids setting without a non-blank entry leaves the static list
\* unset; a static list that is configured holds at least one room id; and
\* with no static room id every room is allowed.
C38_BlankSettingAllowsAll ==
  /\ \A raw \in RoomIdSettings :
       BlankSetting(raw) => ParseRoomIds(raw) = NoList
  /\ allowedRoomIds.defined => allowedRoomIds.ids # <<>>
  /\ allowedRoomIds.ids = <<>> => \A r \in Rooms : isRoomAllowed(r)

----------------------------------------------------------------------------
(* Properties of stop()                                                    *)

\* C39: once stop() has completed, isReady() is false and stays false, no
\* step of a reply callback or of handleSendMessage calls sendMessage, and a
\* call of handleSendMessage throws "not ready" at once.
C39_NothingSentAfterStop ==
  /\ [](client = "null" => ~isReady)
  /\ [][client = "null" =>
          /\ client' = "null"
          /\ Len(sends') = Len(sends)
          /\ (outbound.pc = "idle" /\ outbound'.pc # "idle") =>
               (outbound'.pc = "threw" /\ outbound'.error = "notReady")]_vars

\* stop() completed while a reply of several chunks was being sent, the rest
\* of its chunks was not sent, and handleSendMessage called afterwards threw
C39_StoppedMidReply ==
  /\ client = "null"
  /\ outbound.pc = "threw" /\ outbound.error = "notReady"
  /\ \E i \in 1..NReplies :
       /\ replies[i].pc = "returned" /\ ~replies[i].caught
       /\ Len(replies[i].chunks) >= 2
       /\ Len(SelectSeq(sends, LAMBDA x : x.reply = i)) = 1

====
